---- MODULE Spec2Model ----
(***************************************************************************)
(* Tokenization engine of the Ren'Py text editor                           *)
(* (src/RTE/syntaxhighlight/lexer.py): the rule tables of RenpyLexer and   *)
(* RenpyTracebackLexer, the table of RenpyBlockLexer, the state-stack      *)
(* executor that runs them, the console-transcript dispatcher              *)
(* RenpyConsoleLexer.get_tokens_unprocessed and the insertion merger it    *)
(* feeds.                                                                  *)
(*                                                                         *)
(* A text is a sequence of one-character strings; positions are 0-based    *)
(* as in the source, so the character at position p is t[p + 1].  Token    *)
(* texts are such sequences; word-list entries are strings.                *)
(***************************************************************************)
EXTENDS Integers, Sequences, FiniteSets, TLC

VARIABLES mode, text, pos, statestack, out, last, done,
          curcode, insertions, curtb, tbindex, tb

vars == <<mode, text, pos, statestack, out, last, done,
          curcode, insertions, curtb, tbindex, tb>>

-----------------------------------------------------------------------------
(* Characters and the regular-expression primitives the patterns use.      *)

Lower == {"a", "b", "c", "d", "e", "f", "g", "h", "i", "j", "k", "l", "m",
          "n", "o", "p", "q", "r", "s", "t", "u", "v", "w", "x", "y", "z"}
Upper == {"A", "B", "C", "D", "E", "F", "G", "H", "I", "J", "K", "L", "M",
          "N", "O", "P", "Q", "R", "S", "T", "U", "V", "W", "X", "Y", "Z"}
Digit == {"0", "1", "2", "3", "4", "5", "6", "7", "8", "9"}
OctDigit == {"0", "1", "2", "3", "4", "5", "6", "7"}
HexDigit == Digit \cup {"a", "b", "c", "d", "e", "f", "A", "B", "C", "D", "E", "F"}
\* [a-zA-Z_]
IdStart == Lower \cup Upper \cup {"_"}
\* \w
WordChar == IdStart \cup Digit
\* \s
Space == {" ", "\t", "\n", "\r", "\f"}
\* [^\S\n]
Blank == Space \ {"\n"}

\* The backquote character, which a TLA+ string cannot hold.
Backquote == "<backquote>"

\* The character at position p, "" outside the text.
Ch(t, p) == IF p >= 0 /\ p < Len(t) THEN t[p + 1] ELSE ""

\* The substring t[p:q] as a string.
RECURSIVE Str(_, _, _)
Str(t, p, q) == IF p >= q THEN "" ELSE t[p + 1] \o Str(t, p + 1, q)

\* The slice t[p:q] as a text.
Slice(t, p, q) == SubSeq(t, p + 1, q)

\* Greedy [S]*: the end of the longest run of characters of S from p.
RECURSIVE Span(_, _, _)
Span(t, p, S) == IF Ch(t, p) \in S THEN Span(t, p + 1, S) ELSE p

\* Greedy [^S]*: the end of the longest run of characters outside S from p.
RECURSIVE SpanNot(_, _, _)
SpanNot(t, p, S) ==
    IF p < Len(t) /\ Ch(t, p) \notin S THEN SpanNot(t, p + 1, S) ELSE p

\* A literal string at p.
Lit(t, p, s) == p >= 0 /\ p + Len(s) <= Len(t) /\ Str(t, p, p + Len(s)) = s

\* Lazy (?:.|\n)*? followed by the literal s: the first q >= p with s at q,
\* -1 when there is none.
RECURSIVE Find(_, _, _)
Find(t, p, s) ==
    IF p + Len(s) > Len(t) THEN -1
    ELSE IF Lit(t, p, s) THEN p ELSE Find(t, p + 1, s)

\* Lazy .*? followed by the one-character literal c: as Find, but '.' does
\* not cross a newline.
RECURSIVE FindInLine(_, _, _)
FindInLine(t, p, c) ==
    IF p >= Len(t) THEN -1
    ELSE IF Ch(t, p) = c THEN p
    ELSE IF Ch(t, p) = "\n" THEN -1
    ELSE FindInLine(t, p + 1, c)

\* \b at p: exactly one of the characters around p is a word character.
WordBoundary(t, p) == (Ch(t, p - 1) \in WordChar) # (Ch(t, p) \in WordChar)

\* ^ under re.MULTILINE: the start of the text or just after a newline.
LineStart(t, p) == p = 0 \/ Ch(t, p - 1) = "\n"

\* $ under re.MULTILINE: the end of the text or just before a newline.
LineEnd(t, p) == p = Len(t) \/ Ch(t, p) = "\n"

Max(S) == CHOOSE x \in S : \A y \in S : y <= x
Min(a, b) == IF a <= b THEN a ELSE b

\* A match: e the end position (-1: no match), g the spans <<start, end>> of
\* the pattern's capture groups in the pattern's own numbering (<<-1, -1>>
\* for a group that took no part in the match).
NoMatch == [e |-> -1, g |-> <<>>]
Whole(e) == [e |-> e, g |-> <<>>]
Groups(e, g) == [e |-> e, g |-> g]
NoGroup == <<-1, -1>>

\* words(W, suffix=r'\b') at p: the alternation of the literal words of W,
\* longest alternative first, followed by \b.  The end position or -1.
WordsEnd(W, lens, t, p) ==
    LET c == {n \in lens : /\ p + n <= Len(t)
                           /\ Str(t, p, p + n) \in W
                           /\ WordBoundary(t, p + n)}
    IN  IF c = {} THEN -1 ELSE p + Max(c)

-----------------------------------------------------------------------------
(* The word lists of the RenpyLexer rule table.                            *)

\* lexer.py:120-124  words(suffix='\\b')
KeywordWords ==
    { "assert", "break", "continue", "del", "elif", "else", "except", "exec", "finally",
      "for", "global", "if", "lambda", "pass", "print", "raise", "return", "try", "while",
      "yield", "yield from", "as", "with" }

\* lexer.py:126-130  words(suffix='\\b')
ReservedWords ==
    { "audio", "scene", "expression", "play", "queue", "stop", "python", "init", "pause",
      "jump", "call", "zorder", "show", "hide", "at", "music", "sound", "voice" }

\* lexer.py:131-133  words(suffix='\\b')
DeclarationWords ==
    { "default", "define", "layeredimage", "screen", "transform", "label", "menu", "style",
      "image" }

\* lexer.py:137-139  words(prefix='label ', suffix='\\b')
SpecialLabelWords ==
    { "start", "quit", "after_load", "splashscreen", "before_main_menu", "main_menu",
      "after_warp" }

\* lexer.py:142-149  words(prefix='\\s+', suffix='\\b')
ScreenLangWords ==
    { "add", "bar", "button", "fixed", "frame", "grid", "hbox", "imagebutton", "input", "key",
      "mousearea", "null", "side", "text", "textbutton", "timer", "vbar", "vbox", "viewport",
      "vpgrid", "window", "imagemap", "hotspot", "hotbar", "drag", "draggroup", "has", "on",
      "use", "transclude", "transform", "label" }

\* lexer.py:397-418  words(prefix=' ', suffix='\\b')
ScreenActionWords ==
    { "Call", "Hide", "Jump", "NullAction", "Return", "Show", "ShowTransient", "ToggleScreen",
      "AddToSet", "RemoveFromSet", "SetDict", "SetField", "SetLocalVariable",
      "SetScreenVariable", "SetVariable", "ToggleDict", "ToggleField", "ToggleLocalVariable",
      "ToggleScreenVariable", "ToggleSetMembership", "ToggleVariable", "MainMenu", "Quit",
      "ShowMenu", "Start", "FileAction", "FileDelete", "FileLoad", "FilePage", "FilePageNext",
      "FileSave", "FileTakeScreenshot", "QuickLoad", "QuickSave", "PauseAudio", "Play",
      "Queue", "SetMixer", "SetMute", "Stop", "ToggleMute", "Confirm",
      "DisableAllInputValues", "Function", "Help", "HideInterface", "If", "InvertSelected",
      "MouseMove", "Notify", "OpenURL", "QueueEvent", "RestartStatement", "RollForward",
      "Rollback", "RollbackToIdentifier", "Screenshot", "Scroll", "SelectedIf", "SensitiveIf",
      "Skip", "With", "AnimatedValue", "AudioPositionValue", "DictValue", "FieldValue",
      "MixerValue", "ScreenVariableValue", "StaticValue", "VariableValue", "XScrollValue",
      "YScrollValue", "DictInputValue", "FieldInputValue", "FilePageNameInputValue",
      "ScreenVariableInputValue", "VariableInputValue", "Preference", "GamepadCalibrate",
      "GamepadExists", "FileCurrentPage", "FileCurrentScreenshot", "FileJson", "FileLoadable",
      "FileNewest", "FilePageName", "FileSaveName", "FileScreenshot", "FileSlotName",
      "FileTime", "FileUsedSlot", "SideImage", "GetTooltip" }

\* lexer.py:421-433  words(prefix='(?<!\\.)', suffix='\\b')
BuiltinWords ==
    { "__import__", "abs", "all", "any", "apply", "basestring", "bin", "bool", "buffer",
      "bytearray", "bytes", "callable", "chr", "classmethod", "cmp", "coerce", "compile",
      "complex", "delattr", "dict", "dir", "divmod", "enumerate", "eval", "execfile", "exit",
      "file", "filter", "float", "frozenset", "getattr", "globals", "hasattr", "hash", "hex",
      "id", "input", "int", "intern", "isinstance", "issubclass", "iter", "len", "list",
      "locals", "long", "map", "max", "min", "next", "object", "oct", "open", "ord", "pow",
      "property", "range", "raw_input", "reduce", "reload", "repr", "reversed", "round",
      "set", "setattr", "slice", "sorted", "staticmethod", "str", "sum", "super", "tuple",
      "type", "unichr", "unicode", "vars", "xrange", "zip" }

\* lexer.py:437-451  words(prefix='(?<!\\.)', suffix='\\b')
ExceptionWords ==
    { "ArithmeticError", "AssertionError", "AttributeError", "BaseException",
      "DeprecationWarning", "EOFError", "EnvironmentError", "Exception", "FloatingPointError",
      "FutureWarning", "GeneratorExit", "IOError", "ImportError", "ImportWarning",
      "IndentationError", "IndexError", "KeyError", "KeyboardInterrupt", "LookupError",
      "MemoryError", "ModuleNotFoundError", "NameError", "NotImplemented",
      "NotImplementedError", "OSError", "OverflowError", "OverflowWarning",
      "PendingDeprecationWarning", "RecursionError", "ReferenceError", "RuntimeError",
      "RuntimeWarning", "StandardError", "StopIteration", "StopAsyncIteration", "SyntaxError",
      "SyntaxWarning", "SystemError", "SystemExit", "TabError", "TypeError",
      "UnboundLocalError", "UnicodeDecodeError", "UnicodeEncodeError", "UnicodeError",
      "UnicodeTranslateError", "UnicodeWarning", "UserWarning", "ValueError", "VMSError",
      "Warning", "WindowsError", "ZeroDivisionError" }

\* lexer.py:455-473  words(suffix='\\b')
MagicFuncWords ==
    { "__abs__", "__add__", "__and__", "__call__", "__cmp__", "__coerce__", "__complex__",
      "__contains__", "__del__", "__delattr__", "__delete__", "__delitem__", "__delslice__",
      "__div__", "__divmod__", "__enter__", "__eq__", "__exit__", "__float__", "__floordiv__",
      "__ge__", "__get__", "__getattr__", "__getattribute__", "__getitem__", "__getslice__",
      "__gt__", "__hash__", "__hex__", "__iadd__", "__iand__", "__idiv__", "__ifloordiv__",
      "__ilshift__", "__imod__", "__imul__", "__index__", "__init__", "__instancecheck__",
      "__int__", "__invert__", "__iop__", "__ior__", "__ipow__", "__irshift__", "__isub__",
      "__iter__", "__itruediv__", "__ixor__", "__le__", "__len__", "__long__", "__lshift__",
      "__lt__", "__missing__", "__mod__", "__mul__", "__ne__", "__neg__", "__new__",
      "__nonzero__", "__oct__", "__op__", "__or__", "__pos__", "__pow__", "__radd__",
      "__rand__", "__rcmp__", "__rdiv__", "__rdivmod__", "__repr__", "__reversed__",
      "__rfloordiv__", "__rlshift__", "__rmod__", "__rmul__", "__rop__", "__ror__",
      "__rpow__", "__rrshift__", "__rshift__", "__rsub__", "__rtruediv__", "__rxor__",
      "__set__", "__setattr__", "__setitem__", "__setslice__", "__str__", "__sub__",
      "__subclasscheck__", "__truediv__", "__unicode__", "__xor__" }

\* lexer.py:477-482  words(suffix='\\b')
MagicVarWords ==
    { "__bases__", "__class__", "__closure__", "__code__", "__defaults__", "__dict__",
      "__doc__", "__file__", "__func__", "__globals__", "__metaclass__", "__module__",
      "__mro__", "__name__", "__self__", "__slots__", "__weakref__" }
\* lexer.py:152-395  words(prefix='( {4}){2,}', suffix='\\b')
PropertyWords ==
    { "action", "activate_additive", "activate_adjust_spacing", "activate_align",
      "activate_alignaround", "activate_alpha", "activate_alt", "activate_anchor", "activate_angle",
      "activate_antialias", "activate_area", "activate_around", "activate_background",
      "activate_bar_invert", "activate_bar_resizing", "activate_bar_vertical", "activate_base_bar",
      "activate_black_color", "activate_bold", "activate_bottom_bar", "activate_bottom_gutter",
      "activate_bottom_margin", "activate_bottom_padding", "activate_box_layout",
      "activate_box_reverse", "activate_box_wrap", "activate_box_wrap_spacing", "activate_caret",
      "activate_child", "activate_clipping", "activate_color", "activate_corner1",
      "activate_corner2", "activate_crop", "activate_crop_relative", "activate_debug",
      "activate_delay", "activate_drop_shadow", "activate_drop_shadow_color", "activate_events",
      "activate_first_indent", "activate_first_spacing", "activate_fit_first",
      "activate_focus_mask", "activate_font", "activate_foreground", "activate_hinting",
      "activate_hyperlink_functions", "activate_italic", "activate_justify", "activate_kerning",
      "activate_key_events", "activate_keyboard_focus", "activate_language", "activate_layout",
      "activate_left_bar", "activate_left_gutter", "activate_left_margin", "activate_left_padding",
      "activate_line_leading", "activate_line_spacing", "activate_margin", "activate_maximum",
      "activate_maxsize", "activate_min_width", "activate_minimum", "activate_minwidth",
      "activate_mouse", "activate_nearest", "activate_newline_indent", "activate_offset",
      "activate_order_reverse", "activate_outline_scaling", "activate_outlines", "activate_padding",
      "activate_pos", "activate_radius", "activate_rest_indent", "activate_right_bar",
      "activate_right_gutter", "activate_right_margin", "activate_right_padding", "activate_rotate",
      "activate_rotate_pad", "activate_ruby_style", "activate_size", "activate_size_group",
      "activate_slow_abortable", "activate_slow_cps", "activate_slow_cps_multiplier",
      "activate_sound", "activate_spacing", "activate_strikethrough", "activate_subpixel",
      "activate_text_align", "activate_text_y_fudge", "activate_thumb", "activate_thumb_offset",
      "activate_thumb_shadow", "activate_tooltip", "activate_top_bar", "activate_top_gutter",
      "activate_top_margin", "activate_top_padding", "activate_transform_anchor",
      "activate_underline", "activate_unscrollable", "activate_vertical", "activate_xalign",
      "activate_xanchor", "activate_xanchoraround", "activate_xaround", "activate_xcenter",
      "activate_xfill", "activate_xfit", "activate_xmargin", "activate_xmaximum",
      "activate_xminimum", "activate_xoffset", "activate_xpadding", "activate_xpan",
      "activate_xpos", "activate_xsize", "activate_xspacing", "activate_xtile", "activate_xysize",
      "activate_xzoom", "activate_yalign", "activate_yanchor", "activate_yanchoraround",
      "activate_yaround", "activate_ycenter", "activate_yfill", "activate_yfit", "activate_ymargin",
      "activate_ymaximum", "activate_yminimum", "activate_yoffset", "activate_ypadding",
      "activate_ypan", "activate_ypos", "activate_ysize", "activate_yspacing", "activate_ytile",
      "activate_yzoom", "activate_zoom", "activated", "additive", "adjust_spacing", "adjustment",
      "align", "alignaround", "allow", "alpha", "alt", "alternate", "alternate_keysym", "anchor",
      "angle", "antialias", "area", "arguments", "around", "arrowkeys", "background", "bar_invert",
      "bar_resizing", "bar_vertical", "base_bar", "black_color", "bold", "bottom_bar",
      "bottom_gutter", "bottom_margin", "bottom_padding", "box_layout", "box_reverse", "box_wrap",
      "box_wrap_spacing", "cache", "caption", "caret", "changed", "child", "child_size", "clicked",
      "clipping", "color", "cols", "copypaste", "corner1", "corner2", "crop", "crop_relative",
      "debug", "delay", "drag_handle", "drag_joined", "drag_name", "drag_offscreen", "drag_raise",
      "draggable", "dragged", "drop_allowable", "drop_shadow", "drop_shadow_color", "droppable",
      "dropped", "edgescroll", "events", "exclude", "first_indent", "first_spacing", "fit_first",
      "focus", "focus_mask", "font", "foreground", "ground", "height", "hinting", "hover",
      "hover_additive", "hover_adjust_spacing", "hover_align", "hover_alignaround", "hover_alpha",
      "hover_alt", "hover_anchor", "hover_angle", "hover_antialias", "hover_area", "hover_around",
      "hover_background", "hover_bar_invert", "hover_bar_resizing", "hover_bar_vertical",
      "hover_base_bar", "hover_black_color", "hover_bold", "hover_bottom_bar",
      "hover_bottom_gutter", "hover_bottom_margin", "hover_bottom_padding", "hover_box_layout",
      "hover_box_reverse", "hover_box_wrap", "hover_box_wrap_spacing", "hover_caret", "hover_child",
      "hover_clipping", "hover_color", "hover_corner1", "hover_corner2", "hover_crop",
      "hover_crop_relative", "hover_debug", "hover_delay", "hover_drop_shadow",
      "hover_drop_shadow_color", "hover_events", "hover_first_indent", "hover_first_spacing",
      "hover_fit_first", "hover_focus_mask", "hover_font", "hover_foreground", "hover_hinting",
      "hover_hyperlink_functions", "hover_italic", "hover_justify", "hover_kerning",
      "hover_key_events", "hover_keyboard_focus", "hover_language", "hover_layout",
      "hover_left_bar", "hover_left_gutter", "hover_left_margin", "hover_left_padding",
      "hover_line_leading", "hover_line_spacing", "hover_margin", "hover_maximum", "hover_maxsize",
      "hover_min_width", "hover_minimum", "hover_minwidth", "hover_mouse", "hover_nearest",
      "hover_newline_indent", "hover_offset", "hover_order_reverse", "hover_outline_scaling",
      "hover_outlines", "hover_padding", "hover_pos", "hover_radius", "hover_rest_indent",
      "hover_right_bar", "hover_right_gutter", "hover_right_margin", "hover_right_padding",
      "hover_rotate", "hover_rotate_pad", "hover_ruby_style", "hover_size", "hover_size_group",
      "hover_slow_abortable", "hover_slow_cps", "hover_slow_cps_multiplier", "hover_sound",
      "hover_spacing", "hover_strikethrough", "hover_subpixel", "hover_text_align",
      "hover_text_y_fudge", "hover_thumb", "hover_thumb_offset", "hover_thumb_shadow",
      "hover_tooltip", "hover_top_bar", "hover_top_gutter", "hover_top_margin", "hover_top_padding",
      "hover_transform_anchor", "hover_underline", "hover_unscrollable", "hover_vertical",
      "hover_xalign", "hover_xanchor", "hover_xanchoraround", "hover_xaround", "hover_xcenter",
      "hover_xfill", "hover_xfit", "hover_xmargin", "hover_xmaximum", "hover_xminimum",
      "hover_xoffset", "hover_xpadding", "hover_xpan", "hover_xpos", "hover_xsize",
      "hover_xspacing", "hover_xtile", "hover_xysize", "hover_xzoom", "hover_yalign",
      "hover_yanchor", "hover_yanchoraround", "hover_yaround", "hover_ycenter", "hover_yfill",
      "hover_yfit", "hover_ymargin", "hover_ymaximum", "hover_yminimum", "hover_yoffset",
      "hover_ypadding", "hover_ypan", "hover_ypos", "hover_ysize", "hover_yspacing", "hover_ytile",
      "hover_yzoom", "hover_zoom", "hovered", "hyperlink_functions", "id", "idle", "idle_additive",
      "idle_adjust_spacing", "idle_align", "idle_alignaround", "idle_alpha", "idle_alt",
      "idle_anchor", "idle_angle", "idle_antialias", "idle_area", "idle_around", "idle_background",
      "idle_bar_invert", "idle_bar_resizing", "idle_bar_vertical", "idle_base_bar",
      "idle_black_color", "idle_bold", "idle_bottom_bar", "idle_bottom_gutter",
      "idle_bottom_margin", "idle_bottom_padding", "idle_box_layout", "idle_box_reverse",
      "idle_box_wrap", "idle_box_wrap_spacing", "idle_caret", "idle_child", "idle_clipping",
      "idle_color", "idle_corner1", "idle_corner2", "idle_crop", "idle_crop_relative", "idle_debug",
      "idle_delay", "idle_drop_shadow", "idle_drop_shadow_color", "idle_events",
      "idle_first_indent", "idle_first_spacing", "idle_fit_first", "idle_focus_mask", "idle_font",
      "idle_foreground", "idle_hinting", "idle_hyperlink_functions", "idle_italic", "idle_justify",
      "idle_kerning", "idle_key_events", "idle_keyboard_focus", "idle_language", "idle_layout",
      "idle_left_bar", "idle_left_gutter", "idle_left_margin", "idle_left_padding",
      "idle_line_leading", "idle_line_spacing", "idle_margin", "idle_maximum", "idle_maxsize",
      "idle_min_width", "idle_minimum", "idle_minwidth", "idle_mouse", "idle_nearest",
      "idle_newline_indent", "idle_offset", "idle_order_reverse", "idle_outline_scaling",
      "idle_outlines", "idle_padding", "idle_pos", "idle_radius", "idle_rest_indent",
      "idle_right_bar", "idle_right_gutter", "idle_right_margin", "idle_right_padding",
      "idle_rotate", "idle_rotate_pad", "idle_ruby_style", "idle_size", "idle_size_group",
      "idle_slow_abortable", "idle_slow_cps", "idle_slow_cps_multiplier", "idle_sound",
      "idle_spacing", "idle_strikethrough", "idle_subpixel", "idle_text_align", "idle_text_y_fudge",
      "idle_thumb", "idle_thumb_offset", "idle_thumb_shadow", "idle_tooltip", "idle_top_bar",
      "idle_top_gutter", "idle_top_margin", "idle_top_padding", "idle_transform_anchor",
      "idle_underline", "idle_unscrollable", "idle_vertical", "idle_xalign", "idle_xanchor",
      "idle_xanchoraround", "idle_xaround", "idle_xcenter", "idle_xfill", "idle_xfit",
      "idle_xmargin", "idle_xmaximum", "idle_xminimum", "idle_xoffset", "idle_xpadding",
      "idle_xpan", "idle_xpos", "idle_xsize", "idle_xspacing", "idle_xtile", "idle_xysize",
      "idle_xzoom", "idle_yalign", "idle_yanchor", "idle_yanchoraround", "idle_yaround",
      "idle_ycenter", "idle_yfill", "idle_yfit", "idle_ymargin", "idle_ymaximum", "idle_yminimum",
      "idle_yoffset", "idle_ypadding", "idle_ypan", "idle_ypos", "idle_ysize", "idle_yspacing",
      "idle_ytile", "idle_yzoom", "idle_zoom", "image_style", "insensitive", "insensitive_additive",
      "insensitive_adjust_spacing", "insensitive_align", "insensitive_alignaround",
      "insensitive_alpha", "insensitive_alt", "insensitive_anchor", "insensitive_angle",
      "insensitive_antialias", "insensitive_area", "insensitive_around", "insensitive_background",
      "insensitive_bar_invert", "insensitive_bar_resizing", "insensitive_bar_vertical",
      "insensitive_base_bar", "insensitive_black_color", "insensitive_bold",
      "insensitive_bottom_bar", "insensitive_bottom_gutter", "insensitive_bottom_margin",
      "insensitive_bottom_padding", "insensitive_box_layout", "insensitive_box_reverse",
      "insensitive_box_wrap", "insensitive_box_wrap_spacing", "insensitive_caret",
      "insensitive_child", "insensitive_clipping", "insensitive_color", "insensitive_corner1",
      "insensitive_corner2", "insensitive_crop", "insensitive_crop_relative", "insensitive_debug",
      "insensitive_delay", "insensitive_drop_shadow", "insensitive_drop_shadow_color",
      "insensitive_events", "insensitive_first_indent", "insensitive_first_spacing",
      "insensitive_fit_first", "insensitive_focus_mask", "insensitive_font",
      "insensitive_foreground", "insensitive_hinting", "insensitive_hyperlink_functions",
      "insensitive_italic", "insensitive_justify", "insensitive_kerning", "insensitive_key_events",
      "insensitive_keyboard_focus", "insensitive_language", "insensitive_layout",
      "insensitive_left_bar", "insensitive_left_gutter", "insensitive_left_margin",
      "insensitive_left_padding", "insensitive_line_leading", "insensitive_line_spacing",
      "insensitive_margin", "insensitive_maximum", "insensitive_maxsize", "insensitive_min_width",
      "insensitive_minimum", "insensitive_minwidth", "insensitive_mouse", "insensitive_nearest",
      "insensitive_newline_indent", "insensitive_offset", "insensitive_order_reverse",
      "insensitive_outline_scaling", "insensitive_outlines", "insensitive_padding",
      "insensitive_pos", "insensitive_radius", "insensitive_rest_indent", "insensitive_right_bar",
      "insensitive_right_gutter", "insensitive_right_margin", "insensitive_right_padding",
      "insensitive_rotate", "insensitive_rotate_pad", "insensitive_ruby_style", "insensitive_size",
      "insensitive_size_group", "insensitive_slow_abortable", "insensitive_slow_cps",
      "insensitive_slow_cps_multiplier", "insensitive_sound", "insensitive_spacing",
      "insensitive_strikethrough", "insensitive_subpixel", "insensitive_text_align",
      "insensitive_text_y_fudge", "insensitive_thumb", "insensitive_thumb_offset",
      "insensitive_thumb_shadow", "insensitive_tooltip", "insensitive_top_bar",
      "insensitive_top_gutter", "insensitive_top_margin", "insensitive_top_padding",
      "insensitive_transform_anchor", "insensitive_underline", "insensitive_unscrollable",
      "insensitive_vertical", "insensitive_xalign", "insensitive_xanchor",
      "insensitive_xanchoraround", "insensitive_xaround", "insensitive_xcenter",
      "insensitive_xfill", "insensitive_xfit", "insensitive_xmargin", "insensitive_xmaximum",
      "insensitive_xminimum", "insensitive_xoffset", "insensitive_xpadding", "insensitive_xpan",
      "insensitive_xpos", "insensitive_xsize", "insensitive_xspacing", "insensitive_xtile",
      "insensitive_xysize", "insensitive_xzoom", "insensitive_yalign", "insensitive_yanchor",
      "insensitive_yanchoraround", "insensitive_yaround", "insensitive_ycenter",
      "insensitive_yfill", "insensitive_yfit", "insensitive_ymargin", "insensitive_ymaximum",
      "insensitive_yminimum", "insensitive_yoffset", "insensitive_ypadding", "insensitive_ypan",
      "insensitive_ypos", "insensitive_ysize", "insensitive_yspacing", "insensitive_ytile",
      "insensitive_yzoom", "insensitive_zoom", "italic", "justify", "kerning", "key_events",
      "keyboard_focus", "keysym", "language", "layer", "layout", "left_bar", "left_gutter",
      "left_margin", "left_padding", "length", "line_leading", "line_spacing", "margin", "maximum",
      "maxsize", "min_overlap", "min_width", "minimum", "minwidth", "modal", "mouse", "mouse_drop",
      "mousewheel", "nearest", "newline_indent", "order_reverse", "outline_scaling", "outlines",
      "padding", "pagekeys", "pixel_width", "pos", "predict", "prefix", "properties", "radius",
      "range", "rest_indent", "right_bar", "right_gutter", "right_margin", "right_padding",
      "rotate", "rotate_pad", "rows", "ruby_style", "scope", "scrollbar_activate_align",
      "scrollbar_activate_alt", "scrollbar_activate_anchor", "scrollbar_activate_area",
      "scrollbar_activate_bar_invert", "scrollbar_activate_bar_resizing",
      "scrollbar_activate_bar_vertical", "scrollbar_activate_base_bar",
      "scrollbar_activate_bottom_bar", "scrollbar_activate_bottom_gutter",
      "scrollbar_activate_clipping", "scrollbar_activate_debug",
      "scrollbar_activate_keyboard_focus", "scrollbar_activate_left_bar",
      "scrollbar_activate_left_gutter", "scrollbar_activate_maximum", "scrollbar_activate_mouse",
      "scrollbar_activate_offset", "scrollbar_activate_pos", "scrollbar_activate_right_bar",
      "scrollbar_activate_right_gutter", "scrollbar_activate_thumb",
      "scrollbar_activate_thumb_offset", "scrollbar_activate_thumb_shadow",
      "scrollbar_activate_tooltip", "scrollbar_activate_top_bar", "scrollbar_activate_top_gutter",
      "scrollbar_activate_unscrollable", "scrollbar_activate_xalign", "scrollbar_activate_xanchor",
      "scrollbar_activate_xcenter", "scrollbar_activate_xfill", "scrollbar_activate_xmaximum",
      "scrollbar_activate_xoffset", "scrollbar_activate_xpos", "scrollbar_activate_xsize",
      "scrollbar_activate_xysize", "scrollbar_activate_yalign", "scrollbar_activate_yanchor",
      "scrollbar_activate_ycenter", "scrollbar_activate_yfill", "scrollbar_activate_ymaximum",
      "scrollbar_activate_yoffset", "scrollbar_activate_ypos", "scrollbar_activate_ysize",
      "scrollbar_align", "scrollbar_alt", "scrollbar_anchor", "scrollbar_area",
      "scrollbar_bar_invert", "scrollbar_bar_resizing", "scrollbar_bar_vertical",
      "scrollbar_base_bar", "scrollbar_bottom_bar", "scrollbar_bottom_gutter", "scrollbar_clipping",
      "scrollbar_debug", "scrollbar_hover_align", "scrollbar_hover_alt", "scrollbar_hover_anchor",
      "scrollbar_hover_area", "scrollbar_hover_bar_invert", "scrollbar_hover_bar_resizing",
      "scrollbar_hover_bar_vertical", "scrollbar_hover_base_bar", "scrollbar_hover_bottom_bar",
      "scrollbar_hover_bottom_gutter", "scrollbar_hover_clipping", "scrollbar_hover_debug",
      "scrollbar_hover_keyboard_focus", "scrollbar_hover_left_bar", "scrollbar_hover_left_gutter",
      "scrollbar_hover_maximum", "scrollbar_hover_mouse", "scrollbar_hover_offset",
      "scrollbar_hover_pos", "scrollbar_hover_right_bar", "scrollbar_hover_right_gutter",
      "scrollbar_hover_thumb", "scrollbar_hover_thumb_offset", "scrollbar_hover_thumb_shadow",
      "scrollbar_hover_tooltip", "scrollbar_hover_top_bar", "scrollbar_hover_top_gutter",
      "scrollbar_hover_unscrollable", "scrollbar_hover_xalign", "scrollbar_hover_xanchor",
      "scrollbar_hover_xcenter", "scrollbar_hover_xfill", "scrollbar_hover_xmaximum",
      "scrollbar_hover_xoffset", "scrollbar_hover_xpos", "scrollbar_hover_xsize",
      "scrollbar_hover_xysize", "scrollbar_hover_yalign", "scrollbar_hover_yanchor",
      "scrollbar_hover_ycenter", "scrollbar_hover_yfill", "scrollbar_hover_ymaximum",
      "scrollbar_hover_yoffset", "scrollbar_hover_ypos", "scrollbar_hover_ysize",
      "scrollbar_idle_align", "scrollbar_idle_alt", "scrollbar_idle_anchor", "scrollbar_idle_area",
      "scrollbar_idle_bar_invert", "scrollbar_idle_bar_resizing", "scrollbar_idle_bar_vertical",
      "scrollbar_idle_base_bar", "scrollbar_idle_bottom_bar", "scrollbar_idle_bottom_gutter",
      "scrollbar_idle_clipping", "scrollbar_idle_debug", "scrollbar_idle_keyboard_focus",
      "scrollbar_idle_left_bar", "scrollbar_idle_left_gutter", "scrollbar_idle_maximum",
      "scrollbar_idle_mouse", "scrollbar_idle_offset", "scrollbar_idle_pos",
      "scrollbar_idle_right_bar", "scrollbar_idle_right_gutter", "scrollbar_idle_thumb",
      "scrollbar_idle_thumb_offset", "scrollbar_idle_thumb_shadow", "scrollbar_idle_tooltip",
      "scrollbar_idle_top_bar", "scrollbar_idle_top_gutter", "scrollbar_idle_unscrollable",
      "scrollbar_idle_xalign", "scrollbar_idle_xanchor", "scrollbar_idle_xcenter",
      "scrollbar_idle_xfill", "scrollbar_idle_xmaximum", "scrollbar_idle_xoffset",
      "scrollbar_idle_xpos", "scrollbar_idle_xsize", "scrollbar_idle_xysize",
      "scrollbar_idle_yalign", "scrollbar_idle_yanchor", "scrollbar_idle_ycenter",
      "scrollbar_idle_yfill", "scrollbar_idle_ymaximum", "scrollbar_idle_yoffset",
      "scrollbar_idle_ypos", "scrollbar_idle_ysize", "scrollbar_insensitive_align",
      "scrollbar_insensitive_alt", "scrollbar_insensitive_anchor", "scrollbar_insensitive_area",
      "scrollbar_insensitive_bar_invert", "scrollbar_insensitive_bar_resizing",
      "scrollbar_insensitive_bar_vertical", "scrollbar_insensitive_base_bar",
      "scrollbar_insensitive_bottom_bar", "scrollbar_insensitive_bottom_gutter",
      "scrollbar_insensitive_clipping", "scrollbar_insensitive_debug",
      "scrollbar_insensitive_keyboard_focus", "scrollbar_insensitive_left_bar",
      "scrollbar_insensitive_left_gutter", "scrollbar_insensitive_maximum",
      "scrollbar_insensitive_mouse", "scrollbar_insensitive_offset", "scrollbar_insensitive_pos",
      "scrollbar_insensitive_right_bar", "scrollbar_insensitive_right_gutter",
      "scrollbar_insensitive_thumb", "scrollbar_insensitive_thumb_offset",
      "scrollbar_insensitive_thumb_shadow", "scrollbar_insensitive_tooltip",
      "scrollbar_insensitive_top_bar", "scrollbar_insensitive_top_gutter",
      "scrollbar_insensitive_unscrollable", "scrollbar_insensitive_xalign",
      "scrollbar_insensitive_xanchor", "scrollbar_insensitive_xcenter",
      "scrollbar_insensitive_xfill", "scrollbar_insensitive_xmaximum",
      "scrollbar_insensitive_xoffset", "scrollbar_insensitive_xpos", "scrollbar_insensitive_xsize",
      "scrollbar_insensitive_xysize", "scrollbar_insensitive_yalign",
      "scrollbar_insensitive_yanchor", "scrollbar_insensitive_ycenter",
      "scrollbar_insensitive_yfill", "scrollbar_insensitive_ymaximum",
      "scrollbar_insensitive_yoffset", "scrollbar_insensitive_ypos", "scrollbar_insensitive_ysize",
      "scrollbar_keyboard_focus", "scrollbar_left_bar", "scrollbar_left_gutter",
      "scrollbar_maximum", "scrollbar_mouse", "scrollbar_offset", "scrollbar_pos",
      "scrollbar_right_bar", "scrollbar_right_gutter", "scrollbar_selected_activate_align",
      "scrollbar_selected_activate_alt", "scrollbar_selected_activate_anchor",
      "scrollbar_selected_activate_area", "scrollbar_selected_activate_bar_invert",
      "scrollbar_selected_activate_bar_resizing", "scrollbar_selected_activate_bar_vertical",
      "scrollbar_selected_activate_base_bar", "scrollbar_selected_activate_bottom_bar",
      "scrollbar_selected_activate_bottom_gutter", "scrollbar_selected_activate_clipping",
      "scrollbar_selected_activate_debug", "scrollbar_selected_activate_keyboard_focus",
      "scrollbar_selected_activate_left_bar", "scrollbar_selected_activate_left_gutter",
      "scrollbar_selected_activate_maximum", "scrollbar_selected_activate_mouse",
      "scrollbar_selected_activate_offset", "scrollbar_selected_activate_pos",
      "scrollbar_selected_activate_right_bar", "scrollbar_selected_activate_right_gutter",
      "scrollbar_selected_activate_thumb", "scrollbar_selected_activate_thumb_offset",
      "scrollbar_selected_activate_thumb_shadow", "scrollbar_selected_activate_tooltip",
      "scrollbar_selected_activate_top_bar", "scrollbar_selected_activate_top_gutter",
      "scrollbar_selected_activate_unscrollable", "scrollbar_selected_activate_xalign",
      "scrollbar_selected_activate_xanchor", "scrollbar_selected_activate_xcenter",
      "scrollbar_selected_activate_xfill", "scrollbar_selected_activate_xmaximum",
      "scrollbar_selected_activate_xoffset", "scrollbar_selected_activate_xpos",
      "scrollbar_selected_activate_xsize", "scrollbar_selected_activate_xysize",
      "scrollbar_selected_activate_yalign", "scrollbar_selected_activate_yanchor",
      "scrollbar_selected_activate_ycenter", "scrollbar_selected_activate_yfill",
      "scrollbar_selected_activate_ymaximum", "scrollbar_selected_activate_yoffset",
      "scrollbar_selected_activate_ypos", "scrollbar_selected_activate_ysize",
      "scrollbar_selected_align", "scrollbar_selected_alt", "scrollbar_selected_anchor",
      "scrollbar_selected_area", "scrollbar_selected_bar_invert", "scrollbar_selected_bar_resizing",
      "scrollbar_selected_bar_vertical", "scrollbar_selected_base_bar",
      "scrollbar_selected_bottom_bar", "scrollbar_selected_bottom_gutter",
      "scrollbar_selected_clipping", "scrollbar_selected_debug", "scrollbar_selected_hover_align",
      "scrollbar_selected_hover_alt", "scrollbar_selected_hover_anchor",
      "scrollbar_selected_hover_area", "scrollbar_selected_hover_bar_invert",
      "scrollbar_selected_hover_bar_resizing", "scrollbar_selected_hover_bar_vertical",
      "scrollbar_selected_hover_base_bar", "scrollbar_selected_hover_bottom_bar",
      "scrollbar_selected_hover_bottom_gutter", "scrollbar_selected_hover_clipping",
      "scrollbar_selected_hover_debug", "scrollbar_selected_hover_keyboard_focus",
      "scrollbar_selected_hover_left_bar", "scrollbar_selected_hover_left_gutter",
      "scrollbar_selected_hover_maximum", "scrollbar_selected_hover_mouse",
      "scrollbar_selected_hover_offset", "scrollbar_selected_hover_pos",
      "scrollbar_selected_hover_right_bar", "scrollbar_selected_hover_right_gutter",
      "scrollbar_selected_hover_thumb", "scrollbar_selected_hover_thumb_offset",
      "scrollbar_selected_hover_thumb_shadow", "scrollbar_selected_hover_tooltip",
      "scrollbar_selected_hover_top_bar", "scrollbar_selected_hover_top_gutter",
      "scrollbar_selected_hover_unscrollable", "scrollbar_selected_hover_xalign",
      "scrollbar_selected_hover_xanchor", "scrollbar_selected_hover_xcenter",
      "scrollbar_selected_hover_xfill", "scrollbar_selected_hover_xmaximum",
      "scrollbar_selected_hover_xoffset", "scrollbar_selected_hover_xpos",
      "scrollbar_selected_hover_xsize", "scrollbar_selected_hover_xysize",
      "scrollbar_selected_hover_yalign", "scrollbar_selected_hover_yanchor",
      "scrollbar_selected_hover_ycenter", "scrollbar_selected_hover_yfill",
      "scrollbar_selected_hover_ymaximum", "scrollbar_selected_hover_yoffset",
      "scrollbar_selected_hover_ypos", "scrollbar_selected_hover_ysize",
      "scrollbar_selected_idle_align", "scrollbar_selected_idle_alt",
      "scrollbar_selected_idle_anchor", "scrollbar_selected_idle_area",
      "scrollbar_selected_idle_bar_invert", "scrollbar_selected_idle_bar_resizing",
      "scrollbar_selected_idle_bar_vertical", "scrollbar_selected_idle_base_bar",
      "scrollbar_selected_idle_bottom_bar", "scrollbar_selected_idle_bottom_gutter",
      "scrollbar_selected_idle_clipping", "scrollbar_selected_idle_debug",
      "scrollbar_selected_idle_keyboard_focus", "scrollbar_selected_idle_left_bar",
      "scrollbar_selected_idle_left_gutter", "scrollbar_selected_idle_maximum",
      "scrollbar_selected_idle_mouse", "scrollbar_selected_idle_offset",
      "scrollbar_selected_idle_pos", "scrollbar_selected_idle_right_bar",
      "scrollbar_selected_idle_right_gutter", "scrollbar_selected_idle_thumb",
      "scrollbar_selected_idle_thumb_offset", "scrollbar_selected_idle_thumb_shadow",
      "scrollbar_selected_idle_tooltip", "scrollbar_selected_idle_top_bar",
      "scrollbar_selected_idle_top_gutter", "scrollbar_selected_idle_unscrollable",
      "scrollbar_selected_idle_xalign", "scrollbar_selected_idle_xanchor",
      "scrollbar_selected_idle_xcenter", "scrollbar_selected_idle_xfill",
      "scrollbar_selected_idle_xmaximum", "scrollbar_selected_idle_xoffset",
      "scrollbar_selected_idle_xpos", "scrollbar_selected_idle_xsize",
      "scrollbar_selected_idle_xysize", "scrollbar_selected_idle_yalign",
      "scrollbar_selected_idle_yanchor", "scrollbar_selected_idle_ycenter",
      "scrollbar_selected_idle_yfill", "scrollbar_selected_idle_ymaximum",
      "scrollbar_selected_idle_yoffset", "scrollbar_selected_idle_ypos",
      "scrollbar_selected_idle_ysize", "scrollbar_selected_insensitive_align",
      "scrollbar_selected_insensitive_alt", "scrollbar_selected_insensitive_anchor",
      "scrollbar_selected_insensitive_area", "scrollbar_selected_insensitive_bar_invert",
      "scrollbar_selected_insensitive_bar_resizing", "scrollbar_selected_insensitive_bar_vertical",
      "scrollbar_selected_insensitive_base_bar", "scrollbar_selected_insensitive_bottom_bar",
      "scrollbar_selected_insensitive_bottom_gutter", "scrollbar_selected_insensitive_clipping",
      "scrollbar_selected_insensitive_debug", "scrollbar_selected_insensitive_keyboard_focus",
      "scrollbar_selected_insensitive_left_bar", "scrollbar_selected_insensitive_left_gutter",
      "scrollbar_selected_insensitive_maximum", "scrollbar_selected_insensitive_mouse",
      "scrollbar_selected_insensitive_offset", "scrollbar_selected_insensitive_pos",
      "scrollbar_selected_insensitive_right_bar", "scrollbar_selected_insensitive_right_gutter",
      "scrollbar_selected_insensitive_thumb", "scrollbar_selected_insensitive_thumb_offset",
      "scrollbar_selected_insensitive_thumb_shadow", "scrollbar_selected_insensitive_tooltip",
      "scrollbar_selected_insensitive_top_bar", "scrollbar_selected_insensitive_top_gutter",
      "scrollbar_selected_insensitive_unscrollable", "scrollbar_selected_insensitive_xalign",
      "scrollbar_selected_insensitive_xanchor", "scrollbar_selected_insensitive_xcenter",
      "scrollbar_selected_insensitive_xfill", "scrollbar_selected_insensitive_xmaximum",
      "scrollbar_selected_insensitive_xoffset", "scrollbar_selected_insensitive_xpos",
      "scrollbar_selected_insensitive_xsize", "scrollbar_selected_insensitive_xysize",
      "scrollbar_selected_insensitive_yalign", "scrollbar_selected_insensitive_yanchor",
      "scrollbar_selected_insensitive_ycenter", "scrollbar_selected_insensitive_yfill",
      "scrollbar_selected_insensitive_ymaximum", "scrollbar_selected_insensitive_yoffset",
      "scrollbar_selected_insensitive_ypos", "scrollbar_selected_insensitive_ysize",
      "scrollbar_selected_keyboard_focus", "scrollbar_selected_left_bar",
      "scrollbar_selected_left_gutter", "scrollbar_selected_maximum", "scrollbar_selected_mouse",
      "scrollbar_selected_offset", "scrollbar_selected_pos", "scrollbar_selected_right_bar",
      "scrollbar_selected_right_gutter", "scrollbar_selected_thumb",
      "scrollbar_selected_thumb_offset", "scrollbar_selected_thumb_shadow",
      "scrollbar_selected_tooltip", "scrollbar_selected_top_bar", "scrollbar_selected_top_gutter",
      "scrollbar_selected_unscrollable", "scrollbar_selected_xalign", "scrollbar_selected_xanchor",
      "scrollbar_selected_xcenter", "scrollbar_selected_xfill", "scrollbar_selected_xmaximum",
      "scrollbar_selected_xoffset", "scrollbar_selected_xpos", "scrollbar_selected_xsize",
      "scrollbar_selected_xysize", "scrollbar_selected_yalign", "scrollbar_selected_yanchor",
      "scrollbar_selected_ycenter", "scrollbar_selected_yfill", "scrollbar_selected_ymaximum",
      "scrollbar_selected_yoffset", "scrollbar_selected_ypos", "scrollbar_selected_ysize",
      "scrollbar_thumb", "scrollbar_thumb_offset", "scrollbar_thumb_shadow", "scrollbar_tooltip",
      "scrollbar_top_bar", "scrollbar_top_gutter", "scrollbar_unscrollable", "scrollbar_xalign",
      "scrollbar_xanchor", "scrollbar_xcenter", "scrollbar_xfill", "scrollbar_xmaximum",
      "scrollbar_xoffset", "scrollbar_xpos", "scrollbar_xsize", "scrollbar_xysize",
      "scrollbar_yalign", "scrollbar_yanchor", "scrollbar_ycenter", "scrollbar_yfill",
      "scrollbar_ymaximum", "scrollbar_yoffset", "scrollbar_ypos", "scrollbar_ysize", "scrollbars",
      "selected", "selected_activate_additive", "selected_activate_adjust_spacing",
      "selected_activate_align", "selected_activate_alignaround", "selected_activate_alpha",
      "selected_activate_alt", "selected_activate_anchor", "selected_activate_angle",
      "selected_activate_antialias", "selected_activate_area", "selected_activate_around",
      "selected_activate_background", "selected_activate_bar_invert",
      "selected_activate_bar_resizing", "selected_activate_bar_vertical",
      "selected_activate_base_bar", "selected_activate_black_color", "selected_activate_bold",
      "selected_activate_bottom_bar", "selected_activate_bottom_gutter",
      "selected_activate_bottom_margin", "selected_activate_bottom_padding",
      "selected_activate_box_layout", "selected_activate_box_reverse", "selected_activate_box_wrap",
      "selected_activate_box_wrap_spacing", "selected_activate_caret", "selected_activate_child",
      "selected_activate_clipping", "selected_activate_color", "selected_activate_corner1",
      "selected_activate_corner2", "selected_activate_crop", "selected_activate_crop_relative",
      "selected_activate_debug", "selected_activate_delay", "selected_activate_drop_shadow",
      "selected_activate_drop_shadow_color", "selected_activate_events",
      "selected_activate_first_indent", "selected_activate_first_spacing",
      "selected_activate_fit_first", "selected_activate_focus_mask", "selected_activate_font",
      "selected_activate_foreground", "selected_activate_hinting",
      "selected_activate_hyperlink_functions", "selected_activate_italic",
      "selected_activate_justify", "selected_activate_kerning", "selected_activate_key_events",
      "selected_activate_keyboard_focus", "selected_activate_language", "selected_activate_layout",
      "selected_activate_left_bar", "selected_activate_left_gutter",
      "selected_activate_left_margin", "selected_activate_left_padding",
      "selected_activate_line_leading", "selected_activate_line_spacing",
      "selected_activate_margin", "selected_activate_maximum", "selected_activate_maxsize",
      "selected_activate_min_width", "selected_activate_minimum", "selected_activate_minwidth",
      "selected_activate_mouse", "selected_activate_nearest", "selected_activate_newline_indent",
      "selected_activate_offset", "selected_activate_order_reverse",
      "selected_activate_outline_scaling", "selected_activate_outlines",
      "selected_activate_padding", "selected_activate_pos", "selected_activate_radius",
      "selected_activate_rest_indent", "selected_activate_right_bar",
      "selected_activate_right_gutter", "selected_activate_right_margin",
      "selected_activate_right_padding", "selected_activate_rotate", "selected_activate_rotate_pad",
      "selected_activate_ruby_style", "selected_activate_size", "selected_activate_size_group",
      "selected_activate_slow_abortable", "selected_activate_slow_cps",
      "selected_activate_slow_cps_multiplier", "selected_activate_sound",
      "selected_activate_spacing", "selected_activate_strikethrough", "selected_activate_subpixel",
      "selected_activate_text_align", "selected_activate_text_y_fudge", "selected_activate_thumb",
      "selected_activate_thumb_offset", "selected_activate_thumb_shadow",
      "selected_activate_tooltip", "selected_activate_top_bar", "selected_activate_top_gutter",
      "selected_activate_top_margin", "selected_activate_top_padding",
      "selected_activate_transform_anchor", "selected_activate_underline",
      "selected_activate_unscrollable", "selected_activate_vertical", "selected_activate_xalign",
      "selected_activate_xanchor", "selected_activate_xanchoraround", "selected_activate_xaround",
      "selected_activate_xcenter", "selected_activate_xfill", "selected_activate_xfit",
      "selected_activate_xmargin", "selected_activate_xmaximum", "selected_activate_xminimum",
      "selected_activate_xoffset", "selected_activate_xpadding", "selected_activate_xpan",
      "selected_activate_xpos", "selected_activate_xsize", "selected_activate_xspacing",
      "selected_activate_xtile", "selected_activate_xysize", "selected_activate_xzoom",
      "selected_activate_yalign", "selected_activate_yanchor", "selected_activate_yanchoraround",
      "selected_activate_yaround", "selected_activate_ycenter", "selected_activate_yfill",
      "selected_activate_yfit", "selected_activate_ymargin", "selected_activate_ymaximum",
      "selected_activate_yminimum", "selected_activate_yoffset", "selected_activate_ypadding",
      "selected_activate_ypan", "selected_activate_ypos", "selected_activate_ysize",
      "selected_activate_yspacing", "selected_activate_ytile", "selected_activate_yzoom",
      "selected_activate_zoom", "selected_additive", "selected_adjust_spacing", "selected_align",
      "selected_alignaround", "selected_alpha", "selected_alt", "selected_anchor", "selected_angle",
      "selected_antialias", "selected_area", "selected_around", "selected_background",
      "selected_bar_invert", "selected_bar_resizing", "selected_bar_vertical", "selected_base_bar",
      "selected_black_color", "selected_bold", "selected_bottom_bar", "selected_bottom_gutter",
      "selected_bottom_margin", "selected_bottom_padding", "selected_box_layout",
      "selected_box_reverse", "selected_box_wrap", "selected_box_wrap_spacing", "selected_caret",
      "selected_child", "selected_clipping", "selected_color", "selected_corner1",
      "selected_corner2", "selected_crop", "selected_crop_relative", "selected_debug",
      "selected_delay", "selected_drop_shadow", "selected_drop_shadow_color", "selected_events",
      "selected_first_indent", "selected_first_spacing", "selected_fit_first",
      "selected_focus_mask", "selected_font", "selected_foreground", "selected_hinting",
      "selected_hover", "selected_hover_additive", "selected_hover_adjust_spacing",
      "selected_hover_align", "selected_hover_alignaround", "selected_hover_alpha",
      "selected_hover_alt", "selected_hover_anchor", "selected_hover_angle",
      "selected_hover_antialias", "selected_hover_area", "selected_hover_around",
      "selected_hover_background", "selected_hover_bar_invert", "selected_hover_bar_resizing",
      "selected_hover_bar_vertical", "selected_hover_base_bar", "selected_hover_black_color",
      "selected_hover_bold", "selected_hover_bottom_bar", "selected_hover_bottom_gutter",
      "selected_hover_bottom_margin", "selected_hover_bottom_padding", "selected_hover_box_layout",
      "selected_hover_box_reverse", "selected_hover_box_wrap", "selected_hover_box_wrap_spacing",
      "selected_hover_caret", "selected_hover_child", "selected_hover_clipping",
      "selected_hover_color", "selected_hover_corner1", "selected_hover_corner2",
      "selected_hover_crop", "selected_hover_crop_relative", "selected_hover_debug",
      "selected_hover_delay", "selected_hover_drop_shadow", "selected_hover_drop_shadow_color",
      "selected_hover_events", "selected_hover_first_indent", "selected_hover_first_spacing",
      "selected_hover_fit_first", "selected_hover_focus_mask", "selected_hover_font",
      "selected_hover_foreground", "selected_hover_hinting", "selected_hover_hyperlink_functions",
      "selected_hover_italic", "selected_hover_justify", "selected_hover_kerning",
      "selected_hover_key_events", "selected_hover_keyboard_focus", "selected_hover_language",
      "selected_hover_layout", "selected_hover_left_bar", "selected_hover_left_gutter",
      "selected_hover_left_margin", "selected_hover_left_padding", "selected_hover_line_leading",
      "selected_hover_line_spacing", "selected_hover_margin", "selected_hover_maximum",
      "selected_hover_maxsize", "selected_hover_min_width", "selected_hover_minimum",
      "selected_hover_minwidth", "selected_hover_mouse", "selected_hover_nearest",
      "selected_hover_newline_indent", "selected_hover_offset", "selected_hover_order_reverse",
      "selected_hover_outline_scaling", "selected_hover_outlines", "selected_hover_padding",
      "selected_hover_pos", "selected_hover_radius", "selected_hover_rest_indent",
      "selected_hover_right_bar", "selected_hover_right_gutter", "selected_hover_right_margin",
      "selected_hover_right_padding", "selected_hover_rotate", "selected_hover_rotate_pad",
      "selected_hover_ruby_style", "selected_hover_size", "selected_hover_size_group",
      "selected_hover_slow_abortable", "selected_hover_slow_cps",
      "selected_hover_slow_cps_multiplier", "selected_hover_sound", "selected_hover_spacing",
      "selected_hover_strikethrough", "selected_hover_subpixel", "selected_hover_text_align",
      "selected_hover_text_y_fudge", "selected_hover_thumb", "selected_hover_thumb_offset",
      "selected_hover_thumb_shadow", "selected_hover_tooltip", "selected_hover_top_bar",
      "selected_hover_top_gutter", "selected_hover_top_margin", "selected_hover_top_padding",
      "selected_hover_transform_anchor", "selected_hover_underline", "selected_hover_unscrollable",
      "selected_hover_vertical", "selected_hover_xalign", "selected_hover_xanchor",
      "selected_hover_xanchoraround", "selected_hover_xaround", "selected_hover_xcenter",
      "selected_hover_xfill", "selected_hover_xfit", "selected_hover_xmargin",
      "selected_hover_xmaximum", "selected_hover_xminimum", "selected_hover_xoffset",
      "selected_hover_xpadding", "selected_hover_xpan", "selected_hover_xpos",
      "selected_hover_xsize", "selected_hover_xspacing", "selected_hover_xtile",
      "selected_hover_xysize", "selected_hover_xzoom", "selected_hover_yalign",
      "selected_hover_yanchor", "selected_hover_yanchoraround", "selected_hover_yaround",
      "selected_hover_ycenter", "selected_hover_yfill", "selected_hover_yfit",
      "selected_hover_ymargin", "selected_hover_ymaximum", "selected_hover_yminimum",
      "selected_hover_yoffset", "selected_hover_ypadding", "selected_hover_ypan",
      "selected_hover_ypos", "selected_hover_ysize", "selected_hover_yspacing",
      "selected_hover_ytile", "selected_hover_yzoom", "selected_hover_zoom",
      "selected_hyperlink_functions", "selected_idle", "selected_idle_additive",
      "selected_idle_adjust_spacing", "selected_idle_align", "selected_idle_alignaround",
      "selected_idle_alpha", "selected_idle_alt", "selected_idle_anchor", "selected_idle_angle",
      "selected_idle_antialias", "selected_idle_area", "selected_idle_around",
      "selected_idle_background", "selected_idle_bar_invert", "selected_idle_bar_resizing",
      "selected_idle_bar_vertical", "selected_idle_base_bar", "selected_idle_black_color",
      "selected_idle_bold", "selected_idle_bottom_bar", "selected_idle_bottom_gutter",
      "selected_idle_bottom_margin", "selected_idle_bottom_padding", "selected_idle_box_layout",
      "selected_idle_box_reverse", "selected_idle_box_wrap", "selected_idle_box_wrap_spacing",
      "selected_idle_caret", "selected_idle_child", "selected_idle_clipping", "selected_idle_color",
      "selected_idle_corner1", "selected_idle_corner2", "selected_idle_crop",
      "selected_idle_crop_relative", "selected_idle_debug", "selected_idle_delay",
      "selected_idle_drop_shadow", "selected_idle_drop_shadow_color", "selected_idle_events",
      "selected_idle_first_indent", "selected_idle_first_spacing", "selected_idle_fit_first",
      "selected_idle_focus_mask", "selected_idle_font", "selected_idle_foreground",
      "selected_idle_hinting", "selected_idle_hyperlink_functions", "selected_idle_italic",
      "selected_idle_justify", "selected_idle_kerning", "selected_idle_key_events",
      "selected_idle_keyboard_focus", "selected_idle_language", "selected_idle_layout",
      "selected_idle_left_bar", "selected_idle_left_gutter", "selected_idle_left_margin",
      "selected_idle_left_padding", "selected_idle_line_leading", "selected_idle_line_spacing",
      "selected_idle_margin", "selected_idle_maximum", "selected_idle_maxsize",
      "selected_idle_min_width", "selected_idle_minimum", "selected_idle_minwidth",
      "selected_idle_mouse", "selected_idle_nearest", "selected_idle_newline_indent",
      "selected_idle_offset", "selected_idle_order_reverse", "selected_idle_outline_scaling",
      "selected_idle_outlines", "selected_idle_padding", "selected_idle_pos",
      "selected_idle_radius", "selected_idle_rest_indent", "selected_idle_right_bar",
      "selected_idle_right_gutter", "selected_idle_right_margin", "selected_idle_right_padding",
      "selected_idle_rotate", "selected_idle_rotate_pad", "selected_idle_ruby_style",
      "selected_idle_size", "selected_idle_size_group", "selected_idle_slow_abortable",
      "selected_idle_slow_cps", "selected_idle_slow_cps_multiplier", "selected_idle_sound",
      "selected_idle_spacing", "selected_idle_strikethrough", "selected_idle_subpixel",
      "selected_idle_text_align", "selected_idle_text_y_fudge", "selected_idle_thumb",
      "selected_idle_thumb_offset", "selected_idle_thumb_shadow", "selected_idle_tooltip",
      "selected_idle_top_bar", "selected_idle_top_gutter", "selected_idle_top_margin",
      "selected_idle_top_padding", "selected_idle_transform_anchor", "selected_idle_underline",
      "selected_idle_unscrollable", "selected_idle_vertical", "selected_idle_xalign",
      "selected_idle_xanchor", "selected_idle_xanchoraround", "selected_idle_xaround",
      "selected_idle_xcenter", "selected_idle_xfill", "selected_idle_xfit", "selected_idle_xmargin",
      "selected_idle_xmaximum", "selected_idle_xminimum", "selected_idle_xoffset",
      "selected_idle_xpadding", "selected_idle_xpan", "selected_idle_xpos", "selected_idle_xsize",
      "selected_idle_xspacing", "selected_idle_xtile", "selected_idle_xysize",
      "selected_idle_xzoom", "selected_idle_yalign", "selected_idle_yanchor",
      "selected_idle_yanchoraround", "selected_idle_yaround", "selected_idle_ycenter",
      "selected_idle_yfill", "selected_idle_yfit", "selected_idle_ymargin",
      "selected_idle_ymaximum", "selected_idle_yminimum", "selected_idle_yoffset",
      "selected_idle_ypadding", "selected_idle_ypan", "selected_idle_ypos", "selected_idle_ysize",
      "selected_idle_yspacing", "selected_idle_ytile", "selected_idle_yzoom", "selected_idle_zoom",
      "selected_insensitive", "selected_insensitive_additive",
      "selected_insensitive_adjust_spacing", "selected_insensitive_align",
      "selected_insensitive_alignaround", "selected_insensitive_alpha", "selected_insensitive_alt",
      "selected_insensitive_anchor", "selected_insensitive_angle", "selected_insensitive_antialias",
      "selected_insensitive_area", "selected_insensitive_around", "selected_insensitive_background",
      "selected_insensitive_bar_invert", "selected_insensitive_bar_resizing",
      "selected_insensitive_bar_vertical", "selected_insensitive_base_bar",
      "selected_insensitive_black_color", "selected_insensitive_bold",
      "selected_insensitive_bottom_bar", "selected_insensitive_bottom_gutter",
      "selected_insensitive_bottom_margin", "selected_insensitive_bottom_padding",
      "selected_insensitive_box_layout", "selected_insensitive_box_reverse",
      "selected_insensitive_box_wrap", "selected_insensitive_box_wrap_spacing",
      "selected_insensitive_caret", "selected_insensitive_child", "selected_insensitive_clipping",
      "selected_insensitive_color", "selected_insensitive_corner1", "selected_insensitive_corner2",
      "selected_insensitive_crop", "selected_insensitive_crop_relative",
      "selected_insensitive_debug", "selected_insensitive_delay",
      "selected_insensitive_drop_shadow", "selected_insensitive_drop_shadow_color",
      "selected_insensitive_events", "selected_insensitive_first_indent",
      "selected_insensitive_first_spacing", "selected_insensitive_fit_first",
      "selected_insensitive_focus_mask", "selected_insensitive_font",
      "selected_insensitive_foreground", "selected_insensitive_hinting",
      "selected_insensitive_hyperlink_functions", "selected_insensitive_italic",
      "selected_insensitive_justify", "selected_insensitive_kerning",
      "selected_insensitive_key_events", "selected_insensitive_keyboard_focus",
      "selected_insensitive_language", "selected_insensitive_layout",
      "selected_insensitive_left_bar", "selected_insensitive_left_gutter",
      "selected_insensitive_left_margin", "selected_insensitive_left_padding",
      "selected_insensitive_line_leading", "selected_insensitive_line_spacing",
      "selected_insensitive_margin", "selected_insensitive_maximum", "selected_insensitive_maxsize",
      "selected_insensitive_min_width", "selected_insensitive_minimum",
      "selected_insensitive_minwidth", "selected_insensitive_mouse", "selected_insensitive_nearest",
      "selected_insensitive_newline_indent", "selected_insensitive_offset",
      "selected_insensitive_order_reverse", "selected_insensitive_outline_scaling",
      "selected_insensitive_outlines", "selected_insensitive_padding", "selected_insensitive_pos",
      "selected_insensitive_radius", "selected_insensitive_rest_indent",
      "selected_insensitive_right_bar", "selected_insensitive_right_gutter",
      "selected_insensitive_right_margin", "selected_insensitive_right_padding",
      "selected_insensitive_rotate", "selected_insensitive_rotate_pad",
      "selected_insensitive_ruby_style", "selected_insensitive_size",
      "selected_insensitive_size_group", "selected_insensitive_slow_abortable",
      "selected_insensitive_slow_cps", "selected_insensitive_slow_cps_multiplier",
      "selected_insensitive_sound", "selected_insensitive_spacing",
      "selected_insensitive_strikethrough", "selected_insensitive_subpixel",
      "selected_insensitive_text_align", "selected_insensitive_text_y_fudge",
      "selected_insensitive_thumb", "selected_insensitive_thumb_offset",
      "selected_insensitive_thumb_shadow", "selected_insensitive_tooltip",
      "selected_insensitive_top_bar", "selected_insensitive_top_gutter",
      "selected_insensitive_top_margin", "selected_insensitive_top_padding",
      "selected_insensitive_transform_anchor", "selected_insensitive_underline",
      "selected_insensitive_unscrollable", "selected_insensitive_vertical",
      "selected_insensitive_xalign", "selected_insensitive_xanchor",
      "selected_insensitive_xanchoraround", "selected_insensitive_xaround",
      "selected_insensitive_xcenter", "selected_insensitive_xfill", "selected_insensitive_xfit",
      "selected_insensitive_xmargin", "selected_insensitive_xmaximum",
      "selected_insensitive_xminimum", "selected_insensitive_xoffset",
      "selected_insensitive_xpadding", "selected_insensitive_xpan", "selected_insensitive_xpos",
      "selected_insensitive_xsize", "selected_insensitive_xspacing", "selected_insensitive_xtile",
      "selected_insensitive_xysize", "selected_insensitive_xzoom", "selected_insensitive_yalign",
      "selected_insensitive_yanchor", "selected_insensitive_yanchoraround",
      "selected_insensitive_yaround", "selected_insensitive_ycenter", "selected_insensitive_yfill",
      "selected_insensitive_yfit", "selected_insensitive_ymargin", "selected_insensitive_ymaximum",
      "selected_insensitive_yminimum", "selected_insensitive_yoffset",
      "selected_insensitive_ypadding", "selected_insensitive_ypan", "selected_insensitive_ypos",
      "selected_insensitive_ysize", "selected_insensitive_yspacing", "selected_insensitive_ytile",
      "selected_insensitive_yzoom", "selected_insensitive_zoom", "selected_italic",
      "selected_justify", "selected_kerning", "selected_key_events", "selected_keyboard_focus",
      "selected_language", "selected_layout", "selected_left_bar", "selected_left_gutter",
      "selected_left_margin", "selected_left_padding", "selected_line_leading",
      "selected_line_spacing", "selected_margin", "selected_maximum", "selected_maxsize",
      "selected_min_width", "selected_minimum", "selected_minwidth", "selected_mouse",
      "selected_nearest", "selected_newline_indent", "selected_offset", "selected_order_reverse",
      "selected_outline_scaling", "selected_outlines", "selected_padding", "selected_pos",
      "selected_radius", "selected_rest_indent", "selected_right_bar", "selected_right_gutter",
      "selected_right_margin", "selected_right_padding", "selected_rotate", "selected_rotate_pad",
      "selected_ruby_style", "selected_size", "selected_size_group", "selected_slow_abortable",
      "selected_slow_cps", "selected_slow_cps_multiplier", "selected_sound", "selected_spacing",
      "selected_strikethrough", "selected_subpixel", "selected_text_align", "selected_text_y_fudge",
      "selected_thumb", "selected_thumb_offset", "selected_thumb_shadow", "selected_tooltip",
      "selected_top_bar", "selected_top_gutter", "selected_top_margin", "selected_top_padding",
      "selected_transform_anchor", "selected_underline", "selected_unscrollable",
      "selected_vertical", "selected_xalign", "selected_xanchor", "selected_xanchoraround",
      "selected_xaround", "selected_xcenter", "selected_xfill", "selected_xfit", "selected_xmargin",
      "selected_xmaximum", "selected_xminimum", "selected_xoffset", "selected_xpadding",
      "selected_xpan", "selected_xpos", "selected_xsize", "selected_xspacing", "selected_xtile",
      "selected_xysize", "selected_xzoom", "selected_yalign", "selected_yanchor",
      "selected_yanchoraround", "selected_yaround", "selected_ycenter", "selected_yfill",
      "selected_yfit", "selected_ymargin", "selected_ymaximum", "selected_yminimum",
      "selected_yoffset", "selected_ypadding", "selected_ypan", "selected_ypos", "selected_ysize",
      "selected_yspacing", "selected_ytile", "selected_yzoom", "selected_zoom", "sensitive",
      "side_activate_align", "side_activate_alt", "side_activate_anchor", "side_activate_area",
      "side_activate_clipping", "side_activate_debug", "side_activate_maximum",
      "side_activate_offset", "side_activate_pos", "side_activate_spacing", "side_activate_tooltip",
      "side_activate_xalign", "side_activate_xanchor", "side_activate_xcenter",
      "side_activate_xfill", "side_activate_xmaximum", "side_activate_xoffset",
      "side_activate_xpos", "side_activate_xsize", "side_activate_xysize", "side_activate_yalign",
      "side_activate_yanchor", "side_activate_ycenter", "side_activate_yfill",
      "side_activate_ymaximum", "side_activate_yoffset", "side_activate_ypos",
      "side_activate_ysize", "side_align", "side_alt", "side_anchor", "side_area", "side_clipping",
      "side_debug", "side_hover_align", "side_hover_alt", "side_hover_anchor", "side_hover_area",
      "side_hover_clipping", "side_hover_debug", "side_hover_maximum", "side_hover_offset",
      "side_hover_pos", "side_hover_spacing", "side_hover_tooltip", "side_hover_xalign",
      "side_hover_xanchor", "side_hover_xcenter", "side_hover_xfill", "side_hover_xmaximum",
      "side_hover_xoffset", "side_hover_xpos", "side_hover_xsize", "side_hover_xysize",
      "side_hover_yalign", "side_hover_yanchor", "side_hover_ycenter", "side_hover_yfill",
      "side_hover_ymaximum", "side_hover_yoffset", "side_hover_ypos", "side_hover_ysize",
      "side_idle_align", "side_idle_alt", "side_idle_anchor", "side_idle_area",
      "side_idle_clipping", "side_idle_debug", "side_idle_maximum", "side_idle_offset",
      "side_idle_pos", "side_idle_spacing", "side_idle_tooltip", "side_idle_xalign",
      "side_idle_xanchor", "side_idle_xcenter", "side_idle_xfill", "side_idle_xmaximum",
      "side_idle_xoffset", "side_idle_xpos", "side_idle_xsize", "side_idle_xysize",
      "side_idle_yalign", "side_idle_yanchor", "side_idle_ycenter", "side_idle_yfill",
      "side_idle_ymaximum", "side_idle_yoffset", "side_idle_ypos", "side_idle_ysize",
      "side_insensitive_align", "side_insensitive_alt", "side_insensitive_anchor",
      "side_insensitive_area", "side_insensitive_clipping", "side_insensitive_debug",
      "side_insensitive_maximum", "side_insensitive_offset", "side_insensitive_pos",
      "side_insensitive_spacing", "side_insensitive_tooltip", "side_insensitive_xalign",
      "side_insensitive_xanchor", "side_insensitive_xcenter", "side_insensitive_xfill",
      "side_insensitive_xmaximum", "side_insensitive_xoffset", "side_insensitive_xpos",
      "side_insensitive_xsize", "side_insensitive_xysize", "side_insensitive_yalign",
      "side_insensitive_yanchor", "side_insensitive_ycenter", "side_insensitive_yfill",
      "side_insensitive_ymaximum", "side_insensitive_yoffset", "side_insensitive_ypos",
      "side_insensitive_ysize", "side_maximum", "side_offset", "side_pos",
      "side_selected_activate_align", "side_selected_activate_alt", "side_selected_activate_anchor",
      "side_selected_activate_area", "side_selected_activate_clipping",
      "side_selected_activate_debug", "side_selected_activate_maximum",
      "side_selected_activate_offset", "side_selected_activate_pos",
      "side_selected_activate_spacing", "side_selected_activate_tooltip",
      "side_selected_activate_xalign", "side_selected_activate_xanchor",
      "side_selected_activate_xcenter", "side_selected_activate_xfill",
      "side_selected_activate_xmaximum", "side_selected_activate_xoffset",
      "side_selected_activate_xpos", "side_selected_activate_xsize",
      "side_selected_activate_xysize", "side_selected_activate_yalign",
      "side_selected_activate_yanchor", "side_selected_activate_ycenter",
      "side_selected_activate_yfill", "side_selected_activate_ymaximum",
      "side_selected_activate_yoffset", "side_selected_activate_ypos",
      "side_selected_activate_ysize", "side_selected_align", "side_selected_alt",
      "side_selected_anchor", "side_selected_area", "side_selected_clipping", "side_selected_debug",
      "side_selected_hover_align", "side_selected_hover_alt", "side_selected_hover_anchor",
      "side_selected_hover_area", "side_selected_hover_clipping", "side_selected_hover_debug",
      "side_selected_hover_maximum", "side_selected_hover_offset", "side_selected_hover_pos",
      "side_selected_hover_spacing", "side_selected_hover_tooltip", "side_selected_hover_xalign",
      "side_selected_hover_xanchor", "side_selected_hover_xcenter", "side_selected_hover_xfill",
      "side_selected_hover_xmaximum", "side_selected_hover_xoffset", "side_selected_hover_xpos",
      "side_selected_hover_xsize", "side_selected_hover_xysize", "side_selected_hover_yalign",
      "side_selected_hover_yanchor", "side_selected_hover_ycenter", "side_selected_hover_yfill",
      "side_selected_hover_ymaximum", "side_selected_hover_yoffset", "side_selected_hover_ypos",
      "side_selected_hover_ysize", "side_selected_idle_align", "side_selected_idle_alt",
      "side_selected_idle_anchor", "side_selected_idle_area", "side_selected_idle_clipping",
      "side_selected_idle_debug", "side_selected_idle_maximum", "side_selected_idle_offset",
      "side_selected_idle_pos", "side_selected_idle_spacing", "side_selected_idle_tooltip",
      "side_selected_idle_xalign", "side_selected_idle_xanchor", "side_selected_idle_xcenter",
      "side_selected_idle_xfill", "side_selected_idle_xmaximum", "side_selected_idle_xoffset",
      "side_selected_idle_xpos", "side_selected_idle_xsize", "side_selected_idle_xysize",
      "side_selected_idle_yalign", "side_selected_idle_yanchor", "side_selected_idle_ycenter",
      "side_selected_idle_yfill", "side_selected_idle_ymaximum", "side_selected_idle_yoffset",
      "side_selected_idle_ypos", "side_selected_idle_ysize", "side_selected_insensitive_align",
      "side_selected_insensitive_alt", "side_selected_insensitive_anchor",
      "side_selected_insensitive_area", "side_selected_insensitive_clipping",
      "side_selected_insensitive_debug", "side_selected_insensitive_maximum",
      "side_selected_insensitive_offset", "side_selected_insensitive_pos",
      "side_selected_insensitive_spacing", "side_selected_insensitive_tooltip",
      "side_selected_insensitive_xalign", "side_selected_insensitive_xanchor",
      "side_selected_insensitive_xcenter", "side_selected_insensitive_xfill",
      "side_selected_insensitive_xmaximum", "side_selected_insensitive_xoffset",
      "side_selected_insensitive_xpos", "side_selected_insensitive_xsize",
      "side_selected_insensitive_xysize", "side_selected_insensitive_yalign",
      "side_selected_insensitive_yanchor", "side_selected_insensitive_ycenter",
      "side_selected_insensitive_yfill", "side_selected_insensitive_ymaximum",
      "side_selected_insensitive_yoffset", "side_selected_insensitive_ypos",
      "side_selected_insensitive_ysize", "side_selected_maximum", "side_selected_offset",
      "side_selected_pos", "side_selected_spacing", "side_selected_tooltip", "side_selected_xalign",
      "side_selected_xanchor", "side_selected_xcenter", "side_selected_xfill",
      "side_selected_xmaximum", "side_selected_xoffset", "side_selected_xpos",
      "side_selected_xsize", "side_selected_xysize", "side_selected_yalign",
      "side_selected_yanchor", "side_selected_ycenter", "side_selected_yfill",
      "side_selected_ymaximum", "side_selected_yoffset", "side_selected_ypos",
      "side_selected_ysize", "side_spacing", "side_tooltip", "side_xalign", "side_xanchor",
      "side_xcenter", "side_xfill", "side_xmaximum", "side_xoffset", "side_xpos", "side_xsize",
      "side_xysize", "side_yalign", "side_yanchor", "side_ycenter", "side_yfill", "side_ymaximum",
      "side_yoffset", "side_ypos", "side_ysize", "size", "size_group", "slow", "slow_abortable",
      "slow_cps", "slow_cps_multiplier", "slow_done", "spacing", "strikethrough", "style_group",
      "style_prefix", "style_suffix", "subpixel", "substitute", "suffix",
      "text_activate_adjust_spacing", "text_activate_align", "text_activate_alt",
      "text_activate_anchor", "text_activate_antialias", "text_activate_area",
      "text_activate_black_color", "text_activate_bold", "text_activate_clipping",
      "text_activate_color", "text_activate_debug", "text_activate_drop_shadow",
      "text_activate_drop_shadow_color", "text_activate_first_indent", "text_activate_font",
      "text_activate_hinting", "text_activate_hyperlink_functions", "text_activate_italic",
      "text_activate_justify", "text_activate_kerning", "text_activate_language",
      "text_activate_layout", "text_activate_line_leading", "text_activate_line_spacing",
      "text_activate_maximum", "text_activate_min_width", "text_activate_minimum",
      "text_activate_minwidth", "text_activate_newline_indent", "text_activate_offset",
      "text_activate_outline_scaling", "text_activate_outlines", "text_activate_pos",
      "text_activate_rest_indent", "text_activate_ruby_style", "text_activate_size",
      "text_activate_slow_abortable", "text_activate_slow_cps", "text_activate_slow_cps_multiplier",
      "text_activate_strikethrough", "text_activate_text_align", "text_activate_text_y_fudge",
      "text_activate_tooltip", "text_activate_underline", "text_activate_vertical",
      "text_activate_xalign", "text_activate_xanchor", "text_activate_xcenter",
      "text_activate_xfill", "text_activate_xmaximum", "text_activate_xminimum",
      "text_activate_xoffset", "text_activate_xpos", "text_activate_xsize", "text_activate_xysize",
      "text_activate_yalign", "text_activate_yanchor", "text_activate_ycenter",
      "text_activate_yfill", "text_activate_ymaximum", "text_activate_yminimum",
      "text_activate_yoffset", "text_activate_ypos", "text_activate_ysize", "text_adjust_spacing",
      "text_align", "text_alt", "text_anchor", "text_antialias", "text_area", "text_black_color",
      "text_bold", "text_clipping", "text_color", "text_debug", "text_drop_shadow",
      "text_drop_shadow_color", "text_first_indent", "text_font", "text_hinting",
      "text_hover_adjust_spacing", "text_hover_align", "text_hover_alt", "text_hover_anchor",
      "text_hover_antialias", "text_hover_area", "text_hover_black_color", "text_hover_bold",
      "text_hover_clipping", "text_hover_color", "text_hover_debug", "text_hover_drop_shadow",
      "text_hover_drop_shadow_color", "text_hover_first_indent", "text_hover_font",
      "text_hover_hinting", "text_hover_hyperlink_functions", "text_hover_italic",
      "text_hover_justify", "text_hover_kerning", "text_hover_language", "text_hover_layout",
      "text_hover_line_leading", "text_hover_line_spacing", "text_hover_maximum",
      "text_hover_min_width", "text_hover_minimum", "text_hover_minwidth",
      "text_hover_newline_indent", "text_hover_offset", "text_hover_outline_scaling",
      "text_hover_outlines", "text_hover_pos", "text_hover_rest_indent", "text_hover_ruby_style",
      "text_hover_size", "text_hover_slow_abortable", "text_hover_slow_cps",
      "text_hover_slow_cps_multiplier", "text_hover_strikethrough", "text_hover_text_align",
      "text_hover_text_y_fudge", "text_hover_tooltip", "text_hover_underline",
      "text_hover_vertical", "text_hover_xalign", "text_hover_xanchor", "text_hover_xcenter",
      "text_hover_xfill", "text_hover_xmaximum", "text_hover_xminimum", "text_hover_xoffset",
      "text_hover_xpos", "text_hover_xsize", "text_hover_xysize", "text_hover_yalign",
      "text_hover_yanchor", "text_hover_ycenter", "text_hover_yfill", "text_hover_ymaximum",
      "text_hover_yminimum", "text_hover_yoffset", "text_hover_ypos", "text_hover_ysize",
      "text_hyperlink_functions", "text_idle_adjust_spacing", "text_idle_align", "text_idle_alt",
      "text_idle_anchor", "text_idle_antialias", "text_idle_area", "text_idle_black_color",
      "text_idle_bold", "text_idle_clipping", "text_idle_color", "text_idle_debug",
      "text_idle_drop_shadow", "text_idle_drop_shadow_color", "text_idle_first_indent",
      "text_idle_font", "text_idle_hinting", "text_idle_hyperlink_functions", "text_idle_italic",
      "text_idle_justify", "text_idle_kerning", "text_idle_language", "text_idle_layout",
      "text_idle_line_leading", "text_idle_line_spacing", "text_idle_maximum",
      "text_idle_min_width", "text_idle_minimum", "text_idle_minwidth", "text_idle_newline_indent",
      "text_idle_offset", "text_idle_outline_scaling", "text_idle_outlines", "text_idle_pos",
      "text_idle_rest_indent", "text_idle_ruby_style", "text_idle_size", "text_idle_slow_abortable",
      "text_idle_slow_cps", "text_idle_slow_cps_multiplier", "text_idle_strikethrough",
      "text_idle_text_align", "text_idle_text_y_fudge", "text_idle_tooltip", "text_idle_underline",
      "text_idle_vertical", "text_idle_xalign", "text_idle_xanchor", "text_idle_xcenter",
      "text_idle_xfill", "text_idle_xmaximum", "text_idle_xminimum", "text_idle_xoffset",
      "text_idle_xpos", "text_idle_xsize", "text_idle_xysize", "text_idle_yalign",
      "text_idle_yanchor", "text_idle_ycenter", "text_idle_yfill", "text_idle_ymaximum",
      "text_idle_yminimum", "text_idle_yoffset", "text_idle_ypos", "text_idle_ysize",
      "text_insensitive_adjust_spacing", "text_insensitive_align", "text_insensitive_alt",
      "text_insensitive_anchor", "text_insensitive_antialias", "text_insensitive_area",
      "text_insensitive_black_color", "text_insensitive_bold", "text_insensitive_clipping",
      "text_insensitive_color", "text_insensitive_debug", "text_insensitive_drop_shadow",
      "text_insensitive_drop_shadow_color", "text_insensitive_first_indent",
      "text_insensitive_font", "text_insensitive_hinting", "text_insensitive_hyperlink_functions",
      "text_insensitive_italic", "text_insensitive_justify", "text_insensitive_kerning",
      "text_insensitive_language", "text_insensitive_layout", "text_insensitive_line_leading",
      "text_insensitive_line_spacing", "text_insensitive_maximum", "text_insensitive_min_width",
      "text_insensitive_minimum", "text_insensitive_minwidth", "text_insensitive_newline_indent",
      "text_insensitive_offset", "text_insensitive_outline_scaling", "text_insensitive_outlines",
      "text_insensitive_pos", "text_insensitive_rest_indent", "text_insensitive_ruby_style",
      "text_insensitive_size", "text_insensitive_slow_abortable", "text_insensitive_slow_cps",
      "text_insensitive_slow_cps_multiplier", "text_insensitive_strikethrough",
      "text_insensitive_text_align", "text_insensitive_text_y_fudge", "text_insensitive_tooltip",
      "text_insensitive_underline", "text_insensitive_vertical", "text_insensitive_xalign",
      "text_insensitive_xanchor", "text_insensitive_xcenter", "text_insensitive_xfill",
      "text_insensitive_xmaximum", "text_insensitive_xminimum", "text_insensitive_xoffset",
      "text_insensitive_xpos", "text_insensitive_xsize", "text_insensitive_xysize",
      "text_insensitive_yalign", "text_insensitive_yanchor", "text_insensitive_ycenter",
      "text_insensitive_yfill", "text_insensitive_ymaximum", "text_insensitive_yminimum",
      "text_insensitive_yoffset", "text_insensitive_ypos", "text_insensitive_ysize", "text_italic",
      "text_justify", "text_kerning", "text_language", "text_layout", "text_line_leading",
      "text_line_spacing", "text_maximum", "text_min_width", "text_minimum", "text_minwidth",
      "text_newline_indent", "text_offset", "text_outline_scaling", "text_outlines", "text_pos",
      "text_rest_indent", "text_ruby_style", "text_selected_activate_adjust_spacing",
      "text_selected_activate_align", "text_selected_activate_alt", "text_selected_activate_anchor",
      "text_selected_activate_antialias", "text_selected_activate_area",
      "text_selected_activate_black_color", "text_selected_activate_bold",
      "text_selected_activate_clipping", "text_selected_activate_color",
      "text_selected_activate_debug", "text_selected_activate_drop_shadow",
      "text_selected_activate_drop_shadow_color", "text_selected_activate_first_indent",
      "text_selected_activate_font", "text_selected_activate_hinting",
      "text_selected_activate_hyperlink_functions", "text_selected_activate_italic",
      "text_selected_activate_justify", "text_selected_activate_kerning",
      "text_selected_activate_language", "text_selected_activate_layout",
      "text_selected_activate_line_leading", "text_selected_activate_line_spacing",
      "text_selected_activate_maximum", "text_selected_activate_min_width",
      "text_selected_activate_minimum", "text_selected_activate_minwidth",
      "text_selected_activate_newline_indent", "text_selected_activate_offset",
      "text_selected_activate_outline_scaling", "text_selected_activate_outlines",
      "text_selected_activate_pos", "text_selected_activate_rest_indent",
      "text_selected_activate_ruby_style", "text_selected_activate_size",
      "text_selected_activate_slow_abortable", "text_selected_activate_slow_cps",
      "text_selected_activate_slow_cps_multiplier", "text_selected_activate_strikethrough",
      "text_selected_activate_text_align", "text_selected_activate_text_y_fudge",
      "text_selected_activate_tooltip", "text_selected_activate_underline",
      "text_selected_activate_vertical", "text_selected_activate_xalign",
      "text_selected_activate_xanchor", "text_selected_activate_xcenter",
      "text_selected_activate_xfill", "text_selected_activate_xmaximum",
      "text_selected_activate_xminimum", "text_selected_activate_xoffset",
      "text_selected_activate_xpos", "text_selected_activate_xsize",
      "text_selected_activate_xysize", "text_selected_activate_yalign",
      "text_selected_activate_yanchor", "text_selected_activate_ycenter",
      "text_selected_activate_yfill", "text_selected_activate_ymaximum",
      "text_selected_activate_yminimum", "text_selected_activate_yoffset",
      "text_selected_activate_ypos", "text_selected_activate_ysize", "text_selected_adjust_spacing",
      "text_selected_align", "text_selected_alt", "text_selected_anchor", "text_selected_antialias",
      "text_selected_area", "text_selected_black_color", "text_selected_bold",
      "text_selected_clipping", "text_selected_color", "text_selected_debug",
      "text_selected_drop_shadow", "text_selected_drop_shadow_color", "text_selected_first_indent",
      "text_selected_font", "text_selected_hinting", "text_selected_hover_adjust_spacing",
      "text_selected_hover_align", "text_selected_hover_alt", "text_selected_hover_anchor",
      "text_selected_hover_antialias", "text_selected_hover_area",
      "text_selected_hover_black_color", "text_selected_hover_bold", "text_selected_hover_clipping",
      "text_selected_hover_color", "text_selected_hover_debug", "text_selected_hover_drop_shadow",
      "text_selected_hover_drop_shadow_color", "text_selected_hover_first_indent",
      "text_selected_hover_font", "text_selected_hover_hinting",
      "text_selected_hover_hyperlink_functions", "text_selected_hover_italic",
      "text_selected_hover_justify", "text_selected_hover_kerning", "text_selected_hover_language",
      "text_selected_hover_layout", "text_selected_hover_line_leading",
      "text_selected_hover_line_spacing", "text_selected_hover_maximum",
      "text_selected_hover_min_width", "text_selected_hover_minimum",
      "text_selected_hover_minwidth", "text_selected_hover_newline_indent",
      "text_selected_hover_offset", "text_selected_hover_outline_scaling",
      "text_selected_hover_outlines", "text_selected_hover_pos", "text_selected_hover_rest_indent",
      "text_selected_hover_ruby_style", "text_selected_hover_size",
      "text_selected_hover_slow_abortable", "text_selected_hover_slow_cps",
      "text_selected_hover_slow_cps_multiplier", "text_selected_hover_strikethrough",
      "text_selected_hover_text_align", "text_selected_hover_text_y_fudge",
      "text_selected_hover_tooltip", "text_selected_hover_underline",
      "text_selected_hover_vertical", "text_selected_hover_xalign", "text_selected_hover_xanchor",
      "text_selected_hover_xcenter", "text_selected_hover_xfill", "text_selected_hover_xmaximum",
      "text_selected_hover_xminimum", "text_selected_hover_xoffset", "text_selected_hover_xpos",
      "text_selected_hover_xsize", "text_selected_hover_xysize", "text_selected_hover_yalign",
      "text_selected_hover_yanchor", "text_selected_hover_ycenter", "text_selected_hover_yfill",
      "text_selected_hover_ymaximum", "text_selected_hover_yminimum", "text_selected_hover_yoffset",
      "text_selected_hover_ypos", "text_selected_hover_ysize", "text_selected_hyperlink_functions",
      "text_selected_idle_adjust_spacing", "text_selected_idle_align", "text_selected_idle_alt",
      "text_selected_idle_anchor", "text_selected_idle_antialias", "text_selected_idle_area",
      "text_selected_idle_black_color", "text_selected_idle_bold", "text_selected_idle_clipping",
      "text_selected_idle_color", "text_selected_idle_debug", "text_selected_idle_drop_shadow",
      "text_selected_idle_drop_shadow_color", "text_selected_idle_first_indent",
      "text_selected_idle_font", "text_selected_idle_hinting",
      "text_selected_idle_hyperlink_functions", "text_selected_idle_italic",
      "text_selected_idle_justify", "text_selected_idle_kerning", "text_selected_idle_language",
      "text_selected_idle_layout", "text_selected_idle_line_leading",
      "text_selected_idle_line_spacing", "text_selected_idle_maximum",
      "text_selected_idle_min_width", "text_selected_idle_minimum", "text_selected_idle_minwidth",
      "text_selected_idle_newline_indent", "text_selected_idle_offset",
      "text_selected_idle_outline_scaling", "text_selected_idle_outlines", "text_selected_idle_pos",
      "text_selected_idle_rest_indent", "text_selected_idle_ruby_style", "text_selected_idle_size",
      "text_selected_idle_slow_abortable", "text_selected_idle_slow_cps",
      "text_selected_idle_slow_cps_multiplier", "text_selected_idle_strikethrough",
      "text_selected_idle_text_align", "text_selected_idle_text_y_fudge",
      "text_selected_idle_tooltip", "text_selected_idle_underline", "text_selected_idle_vertical",
      "text_selected_idle_xalign", "text_selected_idle_xanchor", "text_selected_idle_xcenter",
      "text_selected_idle_xfill", "text_selected_idle_xmaximum", "text_selected_idle_xminimum",
      "text_selected_idle_xoffset", "text_selected_idle_xpos", "text_selected_idle_xsize",
      "text_selected_idle_xysize", "text_selected_idle_yalign", "text_selected_idle_yanchor",
      "text_selected_idle_ycenter", "text_selected_idle_yfill", "text_selected_idle_ymaximum",
      "text_selected_idle_yminimum", "text_selected_idle_yoffset", "text_selected_idle_ypos",
      "text_selected_idle_ysize", "text_selected_insensitive_adjust_spacing",
      "text_selected_insensitive_align", "text_selected_insensitive_alt",
      "text_selected_insensitive_anchor", "text_selected_insensitive_antialias",
      "text_selected_insensitive_area", "text_selected_insensitive_black_color",
      "text_selected_insensitive_bold", "text_selected_insensitive_clipping",
      "text_selected_insensitive_color", "text_selected_insensitive_debug",
      "text_selected_insensitive_drop_shadow", "text_selected_insensitive_drop_shadow_color",
      "text_selected_insensitive_first_indent", "text_selected_insensitive_font",
      "text_selected_insensitive_hinting", "text_selected_insensitive_hyperlink_functions",
      "text_selected_insensitive_italic", "text_selected_insensitive_justify",
      "text_selected_insensitive_kerning", "text_selected_insensitive_language",
      "text_selected_insensitive_layout", "text_selected_insensitive_line_leading",
      "text_selected_insensitive_line_spacing", "text_selected_insensitive_maximum",
      "text_selected_insensitive_min_width", "text_selected_insensitive_minimum",
      "text_selected_insensitive_minwidth", "text_selected_insensitive_newline_indent",
      "text_selected_insensitive_offset", "text_selected_insensitive_outline_scaling",
      "text_selected_insensitive_outlines", "text_selected_insensitive_pos",
      "text_selected_insensitive_rest_indent", "text_selected_insensitive_ruby_style",
      "text_selected_insensitive_size", "text_selected_insensitive_slow_abortable",
      "text_selected_insensitive_slow_cps", "text_selected_insensitive_slow_cps_multiplier",
      "text_selected_insensitive_strikethrough", "text_selected_insensitive_text_align",
      "text_selected_insensitive_text_y_fudge", "text_selected_insensitive_tooltip",
      "text_selected_insensitive_underline", "text_selected_insensitive_vertical",
      "text_selected_insensitive_xalign", "text_selected_insensitive_xanchor",
      "text_selected_insensitive_xcenter", "text_selected_insensitive_xfill",
      "text_selected_insensitive_xmaximum", "text_selected_insensitive_xminimum",
      "text_selected_insensitive_xoffset", "text_selected_insensitive_xpos",
      "text_selected_insensitive_xsize", "text_selected_insensitive_xysize",
      "text_selected_insensitive_yalign", "text_selected_insensitive_yanchor",
      "text_selected_insensitive_ycenter", "text_selected_insensitive_yfill",
      "text_selected_insensitive_ymaximum", "text_selected_insensitive_yminimum",
      "text_selected_insensitive_yoffset", "text_selected_insensitive_ypos",
      "text_selected_insensitive_ysize", "text_selected_italic", "text_selected_justify",
      "text_selected_kerning", "text_selected_language", "text_selected_layout",
      "text_selected_line_leading", "text_selected_line_spacing", "text_selected_maximum",
      "text_selected_min_width", "text_selected_minimum", "text_selected_minwidth",
      "text_selected_newline_indent", "text_selected_offset", "text_selected_outline_scaling",
      "text_selected_outlines", "text_selected_pos", "text_selected_rest_indent",
      "text_selected_ruby_style", "text_selected_size", "text_selected_slow_abortable",
      "text_selected_slow_cps", "text_selected_slow_cps_multiplier", "text_selected_strikethrough",
      "text_selected_text_align", "text_selected_text_y_fudge", "text_selected_tooltip",
      "text_selected_underline", "text_selected_vertical", "text_selected_xalign",
      "text_selected_xanchor", "text_selected_xcenter", "text_selected_xfill",
      "text_selected_xmaximum", "text_selected_xminimum", "text_selected_xoffset",
      "text_selected_xpos", "text_selected_xsize", "text_selected_xysize", "text_selected_yalign",
      "text_selected_yanchor", "text_selected_ycenter", "text_selected_yfill",
      "text_selected_ymaximum", "text_selected_yminimum", "text_selected_yoffset",
      "text_selected_ypos", "text_selected_ysize", "text_size", "text_slow_abortable",
      "text_slow_cps", "text_slow_cps_multiplier", "text_strikethrough", "text_style",
      "text_text_align", "text_text_y_fudge", "text_tooltip", "text_underline", "text_vertical",
      "text_xalign", "text_xanchor", "text_xcenter", "text_xfill", "text_xmaximum", "text_xminimum",
      "text_xoffset", "text_xpos", "text_xsize", "text_xysize", "text_y_fudge", "text_yalign",
      "text_yanchor", "text_ycenter", "text_yfill", "text_ymaximum", "text_yminimum",
      "text_yoffset", "text_ypos", "text_ysize", "thumb", "thumb_offset", "thumb_shadow", "tooltip",
      "top_bar", "top_gutter", "top_margin", "top_padding", "transform_anchor", "transpose",
      "underline", "unhovered", "unscrollable", "value", "variant", "vertical",
      "viewport_activate_align", "viewport_activate_alt", "viewport_activate_anchor",
      "viewport_activate_area", "viewport_activate_clipping", "viewport_activate_debug",
      "viewport_activate_maximum", "viewport_activate_offset", "viewport_activate_pos",
      "viewport_activate_tooltip", "viewport_activate_xalign", "viewport_activate_xanchor",
      "viewport_activate_xcenter", "viewport_activate_xfill", "viewport_activate_xmaximum",
      "viewport_activate_xoffset", "viewport_activate_xpos", "viewport_activate_xsize",
      "viewport_activate_xysize", "viewport_activate_yalign", "viewport_activate_yanchor",
      "viewport_activate_ycenter", "viewport_activate_yfill", "viewport_activate_ymaximum",
      "viewport_activate_yoffset", "viewport_activate_ypos", "viewport_activate_ysize",
      "viewport_align", "viewport_alt", "viewport_anchor", "viewport_area", "viewport_clipping",
      "viewport_debug", "viewport_hover_align", "viewport_hover_alt", "viewport_hover_anchor",
      "viewport_hover_area", "viewport_hover_clipping", "viewport_hover_debug",
      "viewport_hover_maximum", "viewport_hover_offset", "viewport_hover_pos",
      "viewport_hover_tooltip", "viewport_hover_xalign", "viewport_hover_xanchor",
      "viewport_hover_xcenter", "viewport_hover_xfill", "viewport_hover_xmaximum",
      "viewport_hover_xoffset", "viewport_hover_xpos", "viewport_hover_xsize",
      "viewport_hover_xysize", "viewport_hover_yalign", "viewport_hover_yanchor",
      "viewport_hover_ycenter", "viewport_hover_yfill", "viewport_hover_ymaximum",
      "viewport_hover_yoffset", "viewport_hover_ypos", "viewport_hover_ysize",
      "viewport_idle_align", "viewport_idle_alt", "viewport_idle_anchor", "viewport_idle_area",
      "viewport_idle_clipping", "viewport_idle_debug", "viewport_idle_maximum",
      "viewport_idle_offset", "viewport_idle_pos", "viewport_idle_tooltip", "viewport_idle_xalign",
      "viewport_idle_xanchor", "viewport_idle_xcenter", "viewport_idle_xfill",
      "viewport_idle_xmaximum", "viewport_idle_xoffset", "viewport_idle_xpos",
      "viewport_idle_xsize", "viewport_idle_xysize", "viewport_idle_yalign",
      "viewport_idle_yanchor", "viewport_idle_ycenter", "viewport_idle_yfill",
      "viewport_idle_ymaximum", "viewport_idle_yoffset", "viewport_idle_ypos",
      "viewport_idle_ysize", "viewport_insensitive_align", "viewport_insensitive_alt",
      "viewport_insensitive_anchor", "viewport_insensitive_area", "viewport_insensitive_clipping",
      "viewport_insensitive_debug", "viewport_insensitive_maximum", "viewport_insensitive_offset",
      "viewport_insensitive_pos", "viewport_insensitive_tooltip", "viewport_insensitive_xalign",
      "viewport_insensitive_xanchor", "viewport_insensitive_xcenter", "viewport_insensitive_xfill",
      "viewport_insensitive_xmaximum", "viewport_insensitive_xoffset", "viewport_insensitive_xpos",
      "viewport_insensitive_xsize", "viewport_insensitive_xysize", "viewport_insensitive_yalign",
      "viewport_insensitive_yanchor", "viewport_insensitive_ycenter", "viewport_insensitive_yfill",
      "viewport_insensitive_ymaximum", "viewport_insensitive_yoffset", "viewport_insensitive_ypos",
      "viewport_insensitive_ysize", "viewport_maximum", "viewport_offset", "viewport_pos",
      "viewport_selected_activate_align", "viewport_selected_activate_alt",
      "viewport_selected_activate_anchor", "viewport_selected_activate_area",
      "viewport_selected_activate_clipping", "viewport_selected_activate_debug",
      "viewport_selected_activate_maximum", "viewport_selected_activate_offset",
      "viewport_selected_activate_pos", "viewport_selected_activate_tooltip",
      "viewport_selected_activate_xalign", "viewport_selected_activate_xanchor",
      "viewport_selected_activate_xcenter", "viewport_selected_activate_xfill",
      "viewport_selected_activate_xmaximum", "viewport_selected_activate_xoffset",
      "viewport_selected_activate_xpos", "viewport_selected_activate_xsize",
      "viewport_selected_activate_xysize", "viewport_selected_activate_yalign",
      "viewport_selected_activate_yanchor", "viewport_selected_activate_ycenter",
      "viewport_selected_activate_yfill", "viewport_selected_activate_ymaximum",
      "viewport_selected_activate_yoffset", "viewport_selected_activate_ypos",
      "viewport_selected_activate_ysize", "viewport_selected_align", "viewport_selected_alt",
      "viewport_selected_anchor", "viewport_selected_area", "viewport_selected_clipping",
      "viewport_selected_debug", "viewport_selected_hover_align", "viewport_selected_hover_alt",
      "viewport_selected_hover_anchor", "viewport_selected_hover_area",
      "viewport_selected_hover_clipping", "viewport_selected_hover_debug",
      "viewport_selected_hover_maximum", "viewport_selected_hover_offset",
      "viewport_selected_hover_pos", "viewport_selected_hover_tooltip",
      "viewport_selected_hover_xalign", "viewport_selected_hover_xanchor",
      "viewport_selected_hover_xcenter", "viewport_selected_hover_xfill",
      "viewport_selected_hover_xmaximum", "viewport_selected_hover_xoffset",
      "viewport_selected_hover_xpos", "viewport_selected_hover_xsize",
      "viewport_selected_hover_xysize", "viewport_selected_hover_yalign",
      "viewport_selected_hover_yanchor", "viewport_selected_hover_ycenter",
      "viewport_selected_hover_yfill", "viewport_selected_hover_ymaximum",
      "viewport_selected_hover_yoffset", "viewport_selected_hover_ypos",
      "viewport_selected_hover_ysize", "viewport_selected_idle_align", "viewport_selected_idle_alt",
      "viewport_selected_idle_anchor", "viewport_selected_idle_area",
      "viewport_selected_idle_clipping", "viewport_selected_idle_debug",
      "viewport_selected_idle_maximum", "viewport_selected_idle_offset",
      "viewport_selected_idle_pos", "viewport_selected_idle_tooltip",
      "viewport_selected_idle_xalign", "viewport_selected_idle_xanchor",
      "viewport_selected_idle_xcenter", "viewport_selected_idle_xfill",
      "viewport_selected_idle_xmaximum", "viewport_selected_idle_xoffset",
      "viewport_selected_idle_xpos", "viewport_selected_idle_xsize",
      "viewport_selected_idle_xysize", "viewport_selected_idle_yalign",
      "viewport_selected_idle_yanchor", "viewport_selected_idle_ycenter",
      "viewport_selected_idle_yfill", "viewport_selected_idle_ymaximum",
      "viewport_selected_idle_yoffset", "viewport_selected_idle_ypos",
      "viewport_selected_idle_ysize", "viewport_selected_insensitive_align",
      "viewport_selected_insensitive_alt", "viewport_selected_insensitive_anchor",
      "viewport_selected_insensitive_area", "viewport_selected_insensitive_clipping",
      "viewport_selected_insensitive_debug", "viewport_selected_insensitive_maximum",
      "viewport_selected_insensitive_offset", "viewport_selected_insensitive_pos",
      "viewport_selected_insensitive_tooltip", "viewport_selected_insensitive_xalign",
      "viewport_selected_insensitive_xanchor", "viewport_selected_insensitive_xcenter",
      "viewport_selected_insensitive_xfill", "viewport_selected_insensitive_xmaximum",
      "viewport_selected_insensitive_xoffset", "viewport_selected_insensitive_xpos",
      "viewport_selected_insensitive_xsize", "viewport_selected_insensitive_xysize",
      "viewport_selected_insensitive_yalign", "viewport_selected_insensitive_yanchor",
      "viewport_selected_insensitive_ycenter", "viewport_selected_insensitive_yfill",
      "viewport_selected_insensitive_ymaximum", "viewport_selected_insensitive_yoffset",
      "viewport_selected_insensitive_ypos", "viewport_selected_insensitive_ysize",
      "viewport_selected_maximum", "viewport_selected_offset", "viewport_selected_pos",
      "viewport_selected_tooltip", "viewport_selected_xalign", "viewport_selected_xanchor",
      "viewport_selected_xcenter", "viewport_selected_xfill", "viewport_selected_xmaximum",
      "viewport_selected_xoffset", "viewport_selected_xpos", "viewport_selected_xsize",
      "viewport_selected_xysize", "viewport_selected_yalign", "viewport_selected_yanchor",
      "viewport_selected_ycenter", "viewport_selected_yfill", "viewport_selected_ymaximum",
      "viewport_selected_yoffset", "viewport_selected_ypos", "viewport_selected_ysize",
      "viewport_tooltip", "viewport_xalign", "viewport_xanchor", "viewport_xcenter",
      "viewport_xfill", "viewport_xmaximum", "viewport_xoffset", "viewport_xpos", "viewport_xsize",
      "viewport_xysize", "viewport_yalign", "viewport_yanchor", "viewport_ycenter",
      "viewport_yfill", "viewport_ymaximum", "viewport_yoffset", "viewport_ypos", "viewport_ysize",
      "vscrollbar_activate_align", "vscrollbar_activate_alt", "vscrollbar_activate_anchor",
      "vscrollbar_activate_area", "vscrollbar_activate_bar_invert",
      "vscrollbar_activate_bar_resizing", "vscrollbar_activate_bar_vertical",
      "vscrollbar_activate_base_bar", "vscrollbar_activate_bottom_bar",
      "vscrollbar_activate_bottom_gutter", "vscrollbar_activate_clipping",
      "vscrollbar_activate_debug", "vscrollbar_activate_keyboard_focus",
      "vscrollbar_activate_left_bar", "vscrollbar_activate_left_gutter",
      "vscrollbar_activate_maximum", "vscrollbar_activate_mouse", "vscrollbar_activate_offset",
      "vscrollbar_activate_pos", "vscrollbar_activate_right_bar",
      "vscrollbar_activate_right_gutter", "vscrollbar_activate_thumb",
      "vscrollbar_activate_thumb_offset", "vscrollbar_activate_thumb_shadow",
      "vscrollbar_activate_tooltip", "vscrollbar_activate_top_bar",
      "vscrollbar_activate_top_gutter", "vscrollbar_activate_unscrollable",
      "vscrollbar_activate_xalign", "vscrollbar_activate_xanchor", "vscrollbar_activate_xcenter",
      "vscrollbar_activate_xfill", "vscrollbar_activate_xmaximum", "vscrollbar_activate_xoffset",
      "vscrollbar_activate_xpos", "vscrollbar_activate_xsize", "vscrollbar_activate_xysize",
      "vscrollbar_activate_yalign", "vscrollbar_activate_yanchor", "vscrollbar_activate_ycenter",
      "vscrollbar_activate_yfill", "vscrollbar_activate_ymaximum", "vscrollbar_activate_yoffset",
      "vscrollbar_activate_ypos", "vscrollbar_activate_ysize", "vscrollbar_align", "vscrollbar_alt",
      "vscrollbar_anchor", "vscrollbar_area", "vscrollbar_bar_invert", "vscrollbar_bar_resizing",
      "vscrollbar_bar_vertical", "vscrollbar_base_bar", "vscrollbar_bottom_bar",
      "vscrollbar_bottom_gutter", "vscrollbar_clipping", "vscrollbar_debug",
      "vscrollbar_hover_align", "vscrollbar_hover_alt", "vscrollbar_hover_anchor",
      "vscrollbar_hover_area", "vscrollbar_hover_bar_invert", "vscrollbar_hover_bar_resizing",
      "vscrollbar_hover_bar_vertical", "vscrollbar_hover_base_bar", "vscrollbar_hover_bottom_bar",
      "vscrollbar_hover_bottom_gutter", "vscrollbar_hover_clipping", "vscrollbar_hover_debug",
      "vscrollbar_hover_keyboard_focus", "vscrollbar_hover_left_bar",
      "vscrollbar_hover_left_gutter", "vscrollbar_hover_maximum", "vscrollbar_hover_mouse",
      "vscrollbar_hover_offset", "vscrollbar_hover_pos", "vscrollbar_hover_right_bar",
      "vscrollbar_hover_right_gutter", "vscrollbar_hover_thumb", "vscrollbar_hover_thumb_offset",
      "vscrollbar_hover_thumb_shadow", "vscrollbar_hover_tooltip", "vscrollbar_hover_top_bar",
      "vscrollbar_hover_top_gutter", "vscrollbar_hover_unscrollable", "vscrollbar_hover_xalign",
      "vscrollbar_hover_xanchor", "vscrollbar_hover_xcenter", "vscrollbar_hover_xfill",
      "vscrollbar_hover_xmaximum", "vscrollbar_hover_xoffset", "vscrollbar_hover_xpos",
      "vscrollbar_hover_xsize", "vscrollbar_hover_xysize", "vscrollbar_hover_yalign",
      "vscrollbar_hover_yanchor", "vscrollbar_hover_ycenter", "vscrollbar_hover_yfill",
      "vscrollbar_hover_ymaximum", "vscrollbar_hover_yoffset", "vscrollbar_hover_ypos",
      "vscrollbar_hover_ysize", "vscrollbar_idle_align", "vscrollbar_idle_alt",
      "vscrollbar_idle_anchor", "vscrollbar_idle_area", "vscrollbar_idle_bar_invert",
      "vscrollbar_idle_bar_resizing", "vscrollbar_idle_bar_vertical", "vscrollbar_idle_base_bar",
      "vscrollbar_idle_bottom_bar", "vscrollbar_idle_bottom_gutter", "vscrollbar_idle_clipping",
      "vscrollbar_idle_debug", "vscrollbar_idle_keyboard_focus", "vscrollbar_idle_left_bar",
      "vscrollbar_idle_left_gutter", "vscrollbar_idle_maximum", "vscrollbar_idle_mouse",
      "vscrollbar_idle_offset", "vscrollbar_idle_pos", "vscrollbar_idle_right_bar",
      "vscrollbar_idle_right_gutter", "vscrollbar_idle_thumb", "vscrollbar_idle_thumb_offset",
      "vscrollbar_idle_thumb_shadow", "vscrollbar_idle_tooltip", "vscrollbar_idle_top_bar",
      "vscrollbar_idle_top_gutter", "vscrollbar_idle_unscrollable", "vscrollbar_idle_xalign",
      "vscrollbar_idle_xanchor", "vscrollbar_idle_xcenter", "vscrollbar_idle_xfill",
      "vscrollbar_idle_xmaximum", "vscrollbar_idle_xoffset", "vscrollbar_idle_xpos",
      "vscrollbar_idle_xsize", "vscrollbar_idle_xysize", "vscrollbar_idle_yalign",
      "vscrollbar_idle_yanchor", "vscrollbar_idle_ycenter", "vscrollbar_idle_yfill",
      "vscrollbar_idle_ymaximum", "vscrollbar_idle_yoffset", "vscrollbar_idle_ypos",
      "vscrollbar_idle_ysize", "vscrollbar_insensitive_align", "vscrollbar_insensitive_alt",
      "vscrollbar_insensitive_anchor", "vscrollbar_insensitive_area",
      "vscrollbar_insensitive_bar_invert", "vscrollbar_insensitive_bar_resizing",
      "vscrollbar_insensitive_bar_vertical", "vscrollbar_insensitive_base_bar",
      "vscrollbar_insensitive_bottom_bar", "vscrollbar_insensitive_bottom_gutter",
      "vscrollbar_insensitive_clipping", "vscrollbar_insensitive_debug",
      "vscrollbar_insensitive_keyboard_focus", "vscrollbar_insensitive_left_bar",
      "vscrollbar_insensitive_left_gutter", "vscrollbar_insensitive_maximum",
      "vscrollbar_insensitive_mouse", "vscrollbar_insensitive_offset", "vscrollbar_insensitive_pos",
      "vscrollbar_insensitive_right_bar", "vscrollbar_insensitive_right_gutter",
      "vscrollbar_insensitive_thumb", "vscrollbar_insensitive_thumb_offset",
      "vscrollbar_insensitive_thumb_shadow", "vscrollbar_insensitive_tooltip",
      "vscrollbar_insensitive_top_bar", "vscrollbar_insensitive_top_gutter",
      "vscrollbar_insensitive_unscrollable", "vscrollbar_insensitive_xalign",
      "vscrollbar_insensitive_xanchor", "vscrollbar_insensitive_xcenter",
      "vscrollbar_insensitive_xfill", "vscrollbar_insensitive_xmaximum",
      "vscrollbar_insensitive_xoffset", "vscrollbar_insensitive_xpos",
      "vscrollbar_insensitive_xsize", "vscrollbar_insensitive_xysize",
      "vscrollbar_insensitive_yalign", "vscrollbar_insensitive_yanchor",
      "vscrollbar_insensitive_ycenter", "vscrollbar_insensitive_yfill",
      "vscrollbar_insensitive_ymaximum", "vscrollbar_insensitive_yoffset",
      "vscrollbar_insensitive_ypos", "vscrollbar_insensitive_ysize", "vscrollbar_keyboard_focus",
      "vscrollbar_left_bar", "vscrollbar_left_gutter", "vscrollbar_maximum", "vscrollbar_mouse",
      "vscrollbar_offset", "vscrollbar_pos", "vscrollbar_right_bar", "vscrollbar_right_gutter",
      "vscrollbar_selected_activate_align", "vscrollbar_selected_activate_alt",
      "vscrollbar_selected_activate_anchor", "vscrollbar_selected_activate_area",
      "vscrollbar_selected_activate_bar_invert", "vscrollbar_selected_activate_bar_resizing",
      "vscrollbar_selected_activate_bar_vertical", "vscrollbar_selected_activate_base_bar",
      "vscrollbar_selected_activate_bottom_bar", "vscrollbar_selected_activate_bottom_gutter",
      "vscrollbar_selected_activate_clipping", "vscrollbar_selected_activate_debug",
      "vscrollbar_selected_activate_keyboard_focus", "vscrollbar_selected_activate_left_bar",
      "vscrollbar_selected_activate_left_gutter", "vscrollbar_selected_activate_maximum",
      "vscrollbar_selected_activate_mouse", "vscrollbar_selected_activate_offset",
      "vscrollbar_selected_activate_pos", "vscrollbar_selected_activate_right_bar",
      "vscrollbar_selected_activate_right_gutter", "vscrollbar_selected_activate_thumb",
      "vscrollbar_selected_activate_thumb_offset", "vscrollbar_selected_activate_thumb_shadow",
      "vscrollbar_selected_activate_tooltip", "vscrollbar_selected_activate_top_bar",
      "vscrollbar_selected_activate_top_gutter", "vscrollbar_selected_activate_unscrollable",
      "vscrollbar_selected_activate_xalign", "vscrollbar_selected_activate_xanchor",
      "vscrollbar_selected_activate_xcenter", "vscrollbar_selected_activate_xfill",
      "vscrollbar_selected_activate_xmaximum", "vscrollbar_selected_activate_xoffset",
      "vscrollbar_selected_activate_xpos", "vscrollbar_selected_activate_xsize",
      "vscrollbar_selected_activate_xysize", "vscrollbar_selected_activate_yalign",
      "vscrollbar_selected_activate_yanchor", "vscrollbar_selected_activate_ycenter",
      "vscrollbar_selected_activate_yfill", "vscrollbar_selected_activate_ymaximum",
      "vscrollbar_selected_activate_yoffset", "vscrollbar_selected_activate_ypos",
      "vscrollbar_selected_activate_ysize", "vscrollbar_selected_align", "vscrollbar_selected_alt",
      "vscrollbar_selected_anchor", "vscrollbar_selected_area", "vscrollbar_selected_bar_invert",
      "vscrollbar_selected_bar_resizing", "vscrollbar_selected_bar_vertical",
      "vscrollbar_selected_base_bar", "vscrollbar_selected_bottom_bar",
      "vscrollbar_selected_bottom_gutter", "vscrollbar_selected_clipping",
      "vscrollbar_selected_debug", "vscrollbar_selected_hover_align",
      "vscrollbar_selected_hover_alt", "vscrollbar_selected_hover_anchor",
      "vscrollbar_selected_hover_area", "vscrollbar_selected_hover_bar_invert",
      "vscrollbar_selected_hover_bar_resizing", "vscrollbar_selected_hover_bar_vertical",
      "vscrollbar_selected_hover_base_bar", "vscrollbar_selected_hover_bottom_bar",
      "vscrollbar_selected_hover_bottom_gutter", "vscrollbar_selected_hover_clipping",
      "vscrollbar_selected_hover_debug", "vscrollbar_selected_hover_keyboard_focus",
      "vscrollbar_selected_hover_left_bar", "vscrollbar_selected_hover_left_gutter",
      "vscrollbar_selected_hover_maximum", "vscrollbar_selected_hover_mouse",
      "vscrollbar_selected_hover_offset", "vscrollbar_selected_hover_pos",
      "vscrollbar_selected_hover_right_bar", "vscrollbar_selected_hover_right_gutter",
      "vscrollbar_selected_hover_thumb", "vscrollbar_selected_hover_thumb_offset",
      "vscrollbar_selected_hover_thumb_shadow", "vscrollbar_selected_hover_tooltip",
      "vscrollbar_selected_hover_top_bar", "vscrollbar_selected_hover_top_gutter",
      "vscrollbar_selected_hover_unscrollable", "vscrollbar_selected_hover_xalign",
      "vscrollbar_selected_hover_xanchor", "vscrollbar_selected_hover_xcenter",
      "vscrollbar_selected_hover_xfill", "vscrollbar_selected_hover_xmaximum",
      "vscrollbar_selected_hover_xoffset", "vscrollbar_selected_hover_xpos",
      "vscrollbar_selected_hover_xsize", "vscrollbar_selected_hover_xysize",
      "vscrollbar_selected_hover_yalign", "vscrollbar_selected_hover_yanchor",
      "vscrollbar_selected_hover_ycenter", "vscrollbar_selected_hover_yfill",
      "vscrollbar_selected_hover_ymaximum", "vscrollbar_selected_hover_yoffset",
      "vscrollbar_selected_hover_ypos", "vscrollbar_selected_hover_ysize",
      "vscrollbar_selected_idle_align", "vscrollbar_selected_idle_alt",
      "vscrollbar_selected_idle_anchor", "vscrollbar_selected_idle_area",
      "vscrollbar_selected_idle_bar_invert", "vscrollbar_selected_idle_bar_resizing",
      "vscrollbar_selected_idle_bar_vertical", "vscrollbar_selected_idle_base_bar",
      "vscrollbar_selected_idle_bottom_bar", "vscrollbar_selected_idle_bottom_gutter",
      "vscrollbar_selected_idle_clipping", "vscrollbar_selected_idle_debug",
      "vscrollbar_selected_idle_keyboard_focus", "vscrollbar_selected_idle_left_bar",
      "vscrollbar_selected_idle_left_gutter", "vscrollbar_selected_idle_maximum",
      "vscrollbar_selected_idle_mouse", "vscrollbar_selected_idle_offset",
      "vscrollbar_selected_idle_pos", "vscrollbar_selected_idle_right_bar",
      "vscrollbar_selected_idle_right_gutter", "vscrollbar_selected_idle_thumb",
      "vscrollbar_selected_idle_thumb_offset", "vscrollbar_selected_idle_thumb_shadow",
      "vscrollbar_selected_idle_tooltip", "vscrollbar_selected_idle_top_bar",
      "vscrollbar_selected_idle_top_gutter", "vscrollbar_selected_idle_unscrollable",
      "vscrollbar_selected_idle_xalign", "vscrollbar_selected_idle_xanchor",
      "vscrollbar_selected_idle_xcenter", "vscrollbar_selected_idle_xfill",
      "vscrollbar_selected_idle_xmaximum", "vscrollbar_selected_idle_xoffset",
      "vscrollbar_selected_idle_xpos", "vscrollbar_selected_idle_xsize",
      "vscrollbar_selected_idle_xysize", "vscrollbar_selected_idle_yalign",
      "vscrollbar_selected_idle_yanchor", "vscrollbar_selected_idle_ycenter",
      "vscrollbar_selected_idle_yfill", "vscrollbar_selected_idle_ymaximum",
      "vscrollbar_selected_idle_yoffset", "vscrollbar_selected_idle_ypos",
      "vscrollbar_selected_idle_ysize", "vscrollbar_selected_insensitive_align",
      "vscrollbar_selected_insensitive_alt", "vscrollbar_selected_insensitive_anchor",
      "vscrollbar_selected_insensitive_area", "vscrollbar_selected_insensitive_bar_invert",
      "vscrollbar_selected_insensitive_bar_resizing",
      "vscrollbar_selected_insensitive_bar_vertical", "vscrollbar_selected_insensitive_base_bar",
      "vscrollbar_selected_insensitive_bottom_bar", "vscrollbar_selected_insensitive_bottom_gutter",
      "vscrollbar_selected_insensitive_clipping", "vscrollbar_selected_insensitive_debug",
      "vscrollbar_selected_insensitive_keyboard_focus", "vscrollbar_selected_insensitive_left_bar",
      "vscrollbar_selected_insensitive_left_gutter", "vscrollbar_selected_insensitive_maximum",
      "vscrollbar_selected_insensitive_mouse", "vscrollbar_selected_insensitive_offset",
      "vscrollbar_selected_insensitive_pos", "vscrollbar_selected_insensitive_right_bar",
      "vscrollbar_selected_insensitive_right_gutter", "vscrollbar_selected_insensitive_thumb",
      "vscrollbar_selected_insensitive_thumb_offset",
      "vscrollbar_selected_insensitive_thumb_shadow", "vscrollbar_selected_insensitive_tooltip",
      "vscrollbar_selected_insensitive_top_bar", "vscrollbar_selected_insensitive_top_gutter",
      "vscrollbar_selected_insensitive_unscrollable", "vscrollbar_selected_insensitive_xalign",
      "vscrollbar_selected_insensitive_xanchor", "vscrollbar_selected_insensitive_xcenter",
      "vscrollbar_selected_insensitive_xfill", "vscrollbar_selected_insensitive_xmaximum",
      "vscrollbar_selected_insensitive_xoffset", "vscrollbar_selected_insensitive_xpos",
      "vscrollbar_selected_insensitive_xsize", "vscrollbar_selected_insensitive_xysize",
      "vscrollbar_selected_insensitive_yalign", "vscrollbar_selected_insensitive_yanchor",
      "vscrollbar_selected_insensitive_ycenter", "vscrollbar_selected_insensitive_yfill",
      "vscrollbar_selected_insensitive_ymaximum", "vscrollbar_selected_insensitive_yoffset",
      "vscrollbar_selected_insensitive_ypos", "vscrollbar_selected_insensitive_ysize",
      "vscrollbar_selected_keyboard_focus", "vscrollbar_selected_left_bar",
      "vscrollbar_selected_left_gutter", "vscrollbar_selected_maximum", "vscrollbar_selected_mouse",
      "vscrollbar_selected_offset", "vscrollbar_selected_pos", "vscrollbar_selected_right_bar",
      "vscrollbar_selected_right_gutter", "vscrollbar_selected_thumb",
      "vscrollbar_selected_thumb_offset", "vscrollbar_selected_thumb_shadow",
      "vscrollbar_selected_tooltip", "vscrollbar_selected_top_bar",
      "vscrollbar_selected_top_gutter", "vscrollbar_selected_unscrollable",
      "vscrollbar_selected_xalign", "vscrollbar_selected_xanchor", "vscrollbar_selected_xcenter",
      "vscrollbar_selected_xfill", "vscrollbar_selected_xmaximum", "vscrollbar_selected_xoffset",
      "vscrollbar_selected_xpos", "vscrollbar_selected_xsize", "vscrollbar_selected_xysize",
      "vscrollbar_selected_yalign", "vscrollbar_selected_yanchor", "vscrollbar_selected_ycenter",
      "vscrollbar_selected_yfill", "vscrollbar_selected_ymaximum", "vscrollbar_selected_yoffset",
      "vscrollbar_selected_ypos", "vscrollbar_selected_ysize", "vscrollbar_thumb",
      "vscrollbar_thumb_offset", "vscrollbar_thumb_shadow", "vscrollbar_tooltip",
      "vscrollbar_top_bar", "vscrollbar_top_gutter", "vscrollbar_unscrollable", "vscrollbar_xalign",
      "vscrollbar_xanchor", "vscrollbar_xcenter", "vscrollbar_xfill", "vscrollbar_xmaximum",
      "vscrollbar_xoffset", "vscrollbar_xpos", "vscrollbar_xsize", "vscrollbar_xysize",
      "vscrollbar_yalign", "vscrollbar_yanchor", "vscrollbar_ycenter", "vscrollbar_yfill",
      "vscrollbar_ymaximum", "vscrollbar_yoffset", "vscrollbar_ypos", "vscrollbar_ysize", "width",
      "xadjustment", "xalign", "xanchor", "xanchoraround", "xaround", "xcenter", "xfill", "xfit",
      "xinitial", "xmargin", "xmaximum", "xminimum", "xoffset", "xpadding", "xpan", "xpos", "xsize",
      "xspacing", "xtile", "xysize", "xzoom", "yadjustment", "yalign", "yanchor", "yanchoraround",
      "yaround", "ycenter", "yfill", "yfit", "yinitial", "ymargin", "ymaximum", "yminimum",
      "yoffset", "ypadding", "ypan", "ypos", "ysize", "yspacing", "ytile", "yzoom", "zoom" }
KeywordLens == {Len(w) : w \in KeywordWords}
PropertyLens == {Len(w) : w \in PropertyWords}
ReservedLens == {Len(w) : w \in ReservedWords}
DeclarationLens == {Len(w) : w \in DeclarationWords}
SpecialLabelLens == {Len(w) : w \in SpecialLabelWords}
ScreenLangLens == {Len(w) : w \in ScreenLangWords}
ScreenActionLens == {Len(w) : w \in ScreenActionWords}
BuiltinLens == {Len(w) : w \in BuiltinWords}
ExceptionLens == {Len(w) : w \in ExceptionWords}
MagicFuncLens == {Len(w) : w \in MagicFuncWords}
MagicVarLens == {Len(w) : w \in MagicVarWords}

\* lexer.py:30-33  words(suffix='\\b') of RenpyBlockLexer
BlockStartWords ==
    { "elif", "else", "except", "finally", "for", "if", "try", "while", "with",
      "label", "screen", "transform", "init", "layeredimage", "menu", "style" }
\* lexer.py:37-39  words(suffix='\\b') of RenpyBlockLexer; words() escapes its
\* entries, so that '# *endregion' stands for these twelve characters.
BlockEndWords ==
    { "\n\n", "break", "continue", "return", "yield", "yield from", "pass",
      "# *endregion" }
BlockStartLens == {Len(w) : w \in BlockStartWords}
BlockEndLens == {Len(w) : w \in BlockEndWords}

-----------------------------------------------------------------------------
(* The patterns of the RenpyLexer rule table, one operator per state of    *)
(* the table; r names the rule within the state.                           *)

\* (?:\s|\\\s)+ from p: the end of the run, p when it is empty.
RECURSIVE SpaceOrEscaped(_, _)
SpaceOrEscaped(t, p) ==
    IF Ch(t, p) \in Space THEN SpaceOrEscaped(t, p + 1)
    ELSE IF Ch(t, p) = "\\" /\ Ch(t, p + 1) \in Space THEN SpaceOrEscaped(t, p + 2)
    ELSE p

\* (kw)((?:\s|\\\s)+): the keyword, then at least one blank.
KeywordThenSpace(t, p, kw) ==
    LET a == p + Len(kw)
        b == SpaceOrEscaped(t, a)
    IN  IF Lit(t, p, kw) /\ b > a THEN Groups(b, <<<<p, a>>, <<a, b>>>>) ELSE NoMatch

\* ^(\s*)([rRuUbB]{,2})(QQQ(?:.|\n)*?QQQ) for a triple quote QQQ.
DocString(t, p, qqq) ==
    LET a == Span(t, p, Space)
        b == Min(a + 2, Span(t, a, {"r", "R", "u", "U", "b", "B"}))
        c == Find(t, b + 3, qqq)
    IN  IF LineStart(t, p) /\ Lit(t, b, qqq) /\ c >= 0
        THEN Groups(c + 3, <<<<p, a>>, <<a, b>>, <<b, c + 3>>>>)
        ELSE NoMatch

\* ([rR]|[uUbB][rR]|[rR][uUbB])(Q) for a quote Q.
RawStringOpen(t, p, q) ==
    LET one == Ch(t, p) \in {"r", "R"}
        two == \/ Ch(t, p) \in {"u", "U", "b", "B"} /\ Ch(t, p + 1) \in {"r", "R"}
               \/ Ch(t, p) \in {"r", "R"} /\ Ch(t, p + 1) \in {"u", "U", "b", "B"}
    IN  IF one /\ Lit(t, p + 1, q)
        THEN Groups(p + 1 + Len(q), <<<<p, p + 1>>, <<p + 1, p + 1 + Len(q)>>>>)
        ELSE IF two /\ Lit(t, p + 2, q)
        THEN Groups(p + 2 + Len(q), <<<<p, p + 2>>, <<p + 2, p + 2 + Len(q)>>>>)
        ELSE NoMatch

\* ([uUbB]?)(Q) for a quote Q.
StringOpen(t, p, q) ==
    IF Ch(t, p) \in {"u", "U", "b", "B"} /\ Lit(t, p + 1, q)
    THEN Groups(p + 1 + Len(q), <<<<p, p + 1>>, <<p + 1, p + 1 + Len(q)>>>>)
    ELSE IF Lit(t, p, q)
    THEN Groups(p + Len(q), <<<<p, p>>, <<p, p + Len(q)>>>>)
    ELSE NoMatch

\* lexer.py:68-118, the rules of 'root' that are not includes.
MatchRoot(r, t, p) ==
    CASE r = "newline" ->                                 \* \n
           IF Ch(t, p) = "\n" THEN Whole(p + 1) ELSE NoMatch
      [] r = "python_inline" ->                           \* ^ *\$
           LET a == Span(t, p, {" "})
           IN  IF LineStart(t, p) /\ Ch(t, a) = "$" THEN Whole(a + 1) ELSE NoMatch
      [] r = "renpy_function" ->
           \* ((renpy|im)\.[a-zA-Z_]+)\(([a-zA-Z_ ,=]+)\)
           LET a == IF Lit(t, p, "renpy") THEN p + 5
                    ELSE IF Lit(t, p, "im") THEN p + 2 ELSE -1
               b == Span(t, a + 1, IdStart)
               c == Span(t, b + 1, IdStart \cup {" ", ",", "="})
           IN  IF /\ a >= 0 /\ Ch(t, a) = "." /\ b > a + 1
                  /\ Ch(t, b) = "(" /\ c > b + 1 /\ Ch(t, c) = ")"
               THEN Groups(c + 1, <<<<p, b>>, <<p, a>>, <<b + 1, c>>>>)
               ELSE NoMatch
      [] r = "dollar" ->                                  \* \$
           IF Ch(t, p) = "$" THEN Whole(p + 1) ELSE NoMatch
      [] r = "docstring_double" -> DocString(t, p, "\"\"\"")
      [] r = "docstring_single" -> DocString(t, p, "'''")
      [] r = "blank" ->                                   \* [^\S\n]+
           LET a == Span(t, p, Blank) IN IF a > p THEN Whole(a) ELSE NoMatch
      [] r = "hashbang" ->                                \* \A#!.+$
           LET a == SpanNot(t, p + 2, {"\n"})
           IN  IF p = 0 /\ Lit(t, p, "#!") /\ a > p + 2 THEN Whole(a) ELSE NoMatch
      [] r = "comment" ->                                 \* #.*$
           IF Ch(t, p) = "#" THEN Whole(SpanNot(t, p + 1, {"\n"})) ELSE NoMatch
      [] r = "punctuation" ->                             \* []{}:(),;[]
           IF Ch(t, p) \in {"]", "{", "}", ":", "(", ")", ",", ";", "["}
           THEN Whole(p + 1) ELSE NoMatch
      [] r = "backslash_newline" ->                       \* \\\n
           IF Lit(t, p, "\\\n") THEN Whole(p + 2) ELSE NoMatch
      [] r = "backslash" ->                               \* \\
           IF Ch(t, p) = "\\" THEN Whole(p + 1) ELSE NoMatch
      [] r = "operator_word" ->                           \* (in|is|and|or|not)\b
           Whole(WordsEnd({"in", "is", "and", "or", "not"}, {2, 3}, t, p))
      [] r = "operator" ->            \* !=|==|<<|>>|[-~+/*%=<>&^|.]
           IF \E s \in {"!=", "==", "<<", ">>"} : Lit(t, p, s) THEN Whole(p + 2)
           ELSE IF Ch(t, p) \in {"-", "~", "+", "/", "*", "%", "=", "<", ">",
                                 "&", "^", "|", "."}
           THEN Whole(p + 1) ELSE NoMatch
      [] r = "def" -> KeywordThenSpace(t, p, "def")
      [] r = "class" -> KeywordThenSpace(t, p, "class")
      [] r = "from" -> KeywordThenSpace(t, p, "from")
      [] r = "import" -> KeywordThenSpace(t, p, "import")
      [] r = "raw_tdqs" -> RawStringOpen(t, p, "\"\"\"")
      [] r = "raw_tsqs" -> RawStringOpen(t, p, "'''")
      [] r = "raw_dqs" -> RawStringOpen(t, p, "\"")
      [] r = "raw_sqs" -> RawStringOpen(t, p, "'")
      [] r = "open_tdqs" -> StringOpen(t, p, "\"\"\"")
      [] r = "open_tsqs" -> StringOpen(t, p, "'''")
      [] r = "open_dqs" -> StringOpen(t, p, "\"")
      [] r = "open_sqs" -> StringOpen(t, p, "'")

\* words(W) with the suffix \b left out.
WordsEndUnguarded(W, lens, t, p) ==
    LET c == {n \in lens : p + n <= Len(t) /\ Str(t, p, p + n) \in W}
    IN  IF c = {} THEN -1 ELSE p + Max(c)

\* The keyword lists without their suffix \b.
MatchKeywords_NoSuffix(r, t, p) ==
    CASE r = "keyword" -> Whole(WordsEndUnguarded(KeywordWords, KeywordLens, t, p))
      [] r = "reserved" -> Whole(WordsEndUnguarded(ReservedWords, ReservedLens, t, p))
      [] r = "declaration" ->
           Whole(WordsEndUnguarded(DeclarationWords, DeclarationLens, t, p))

\* lexer.py:119-135, 'keywords'.
MatchKeywords(r, t, p) ==
    CASE r = "keyword" -> Whole(WordsEnd(KeywordWords, KeywordLens, t, p))
      [] r = "reserved" -> Whole(WordsEnd(ReservedWords, ReservedLens, t, p))
      [] r = "declaration" ->
           Whole(WordsEnd(DeclarationWords, DeclarationLens, t, p))

\* lexer.py:136-140, 'special_labels': prefix "label ".
MatchSpecialLabels(t, p) ==
    IF Lit(t, p, "label ")
    THEN Whole(WordsEnd(SpecialLabelWords, SpecialLabelLens, t, p + 6))
    ELSE NoMatch

\* lexer.py:151-395, 'properties': prefix ( {4}){2,}, two or more groups of
\* four blanks, which must end where the word begins.
MatchProperties(t, p) ==
    LET a == Span(t, p, {" "})
    IN  IF a - p >= 8 /\ (a - p) % 4 = 0
        THEN Whole(WordsEnd(PropertyWords, PropertyLens, t, a))
        ELSE NoMatch

\* lexer.py:141-150, 'screen_lang': prefix \s+.
MatchScreenLang(t, p) ==
    LET a == Span(t, p, Space)
    IN  IF a > p THEN Whole(WordsEnd(ScreenLangWords, ScreenLangLens, t, a))
        ELSE NoMatch

\* lexer.py:396-419, 'screen_actions': prefix ' '.
MatchScreenActions(t, p) ==
    IF Ch(t, p) = " "
    THEN Whole(WordsEnd(ScreenActionWords, ScreenActionLens, t, p + 1))
    ELSE NoMatch

\* lexer.py:420-453, 'builtins': prefix (?<!\.).
MatchBuiltins(r, t, p) ==
    IF Ch(t, p - 1) = "." THEN NoMatch
    ELSE CASE r = "builtin" -> Whole(WordsEnd(BuiltinWords, BuiltinLens, t, p))
           [] r = "builtin_pseudo" ->
                \* (?<!\.)(self|None|Ellipsis|NotImplemented|False|True|cls)\b
                Whole(WordsEnd({"self", "None", "Ellipsis", "NotImplemented",
                                "False", "True", "cls"}, {3, 4, 5, 8, 14}, t, p))
           [] r = "exception" ->
                Whole(WordsEnd(ExceptionWords, ExceptionLens, t, p))

\* lexer.py:454-484, 'magicfuncs' and 'magicvars'.
MatchMagic(r, t, p) ==
    CASE r = "magicfunc" -> Whole(WordsEnd(MagicFuncWords, MagicFuncLens, t, p))
      [] r = "magicvar" -> Whole(WordsEnd(MagicVarWords, MagicVarLens, t, p))

\* ([eE][+-]?[0-9]+)? from p: the end of the optional exponent.
Exponent(t, p) ==
    LET a == IF Ch(t, p + 1) \in {"+", "-"} THEN p + 2 ELSE p + 1
        b == Span(t, a, Digit)
    IN  IF Ch(t, p) \in {"e", "E"} /\ b > a THEN b ELSE p

\* j? from p.
OptJ(t, p) == IF Ch(t, p) = "j" THEN p + 1 ELSE p

\* lexer.py:485-493, 'numbers'.
MatchNumbers(r, t, p) ==
    LET d == Span(t, p, Digit)
    IN  CASE r = "float" ->
               \* (\d+\.\d*|\d*\.\d+)([eE][+-]?[0-9]+)?j?
               LET f == Span(t, d + 1, Digit)
               IN  IF Ch(t, d) = "." /\ (d > p \/ f > d + 1)
                   THEN Whole(OptJ(t, Exponent(t, f))) ELSE NoMatch
          [] r = "float_exp" ->                       \* \d+[eE][+-]?[0-9]+j?
               LET x == Exponent(t, d)
               IN  IF d > p /\ x > d THEN Whole(OptJ(t, x)) ELSE NoMatch
          [] r = "oct" ->                             \* 0[0-7]+j?
               LET a == Span(t, p + 1, OctDigit)
               IN  IF Ch(t, p) = "0" /\ a > p + 1 THEN Whole(OptJ(t, a)) ELSE NoMatch
          [] r = "bin" ->                             \* 0[bB][01]+
               LET a == Span(t, p + 2, {"0", "1"})
               IN  IF Ch(t, p) = "0" /\ Ch(t, p + 1) \in {"b", "B"} /\ a > p + 2
                   THEN Whole(a) ELSE NoMatch
          [] r = "hex" ->                             \* 0[xX][a-fA-F0-9]+
               LET a == Span(t, p + 2, HexDigit)
               IN  IF Ch(t, p) = "0" /\ Ch(t, p + 1) \in {"x", "X"} /\ a > p + 2
                   THEN Whole(a) ELSE NoMatch
          [] r = "long" ->                            \* \d+L
               IF d > p /\ Ch(t, d) = "L" THEN Whole(d + 1) ELSE NoMatch
          [] r = "integer" ->                         \* \d+j?
               IF d > p THEN Whole(OptJ(t, d)) ELSE NoMatch

\* lexer.py:494-500, 'backtick' and 'name'.
MatchName(r, t, p) ==
    CASE r = "backtick" ->                  \* BQ.*?BQ, BQ the backquote
           LET a == FindInLine(t, p + 1, Backquote)
           IN  IF Ch(t, p) = Backquote /\ a >= 0 THEN Whole(a + 1) ELSE NoMatch
      [] r = "decorator" ->                               \* @[\w.]+
           LET a == Span(t, p + 1, WordChar \cup {"."})
           IN  IF Ch(t, p) = "@" /\ a > p + 1 THEN Whole(a) ELSE NoMatch
      [] r = "name" ->                                    \* [a-zA-Z_]\w*
           IF Ch(t, p) \in IdStart THEN Whole(Span(t, p + 1, WordChar))
           ELSE NoMatch

\* (?:[ \t]|\\\n)+ from p: the end of the run, p when it is empty.
RECURSIVE BlankOrContinuation(_, _)
BlankOrContinuation(t, p) ==
    IF Ch(t, p) \in {" ", "\t"} THEN BlankOrContinuation(t, p + 1)
    ELSE IF Lit(t, p, "\\\n") THEN BlankOrContinuation(t, p + 2)
    ELSE p

\* lexer.py:501-527, the rules of 'funcname', 'classname', 'import' and
\* 'fromimport' that are not includes; default() matches the empty string.
MatchNameStates(r, t, p) ==
    CASE r \in {"funcname_name", "classname_name"} ->     \* [a-zA-Z_]\w*
           IF Ch(t, p) \in IdStart THEN Whole(Span(t, p + 1, WordChar))
           ELSE NoMatch
      [] r \in {"funcname_default", "import_default", "fromimport_default"} ->
           Whole(p)
      [] r \in {"import_blank", "fromimport_blank"} ->
           LET a == BlankOrContinuation(t, p)
           IN  IF a > p THEN Whole(a) ELSE NoMatch
      [] r = "import_as" ->                               \* as\b
           IF Lit(t, p, "as") /\ WordBoundary(t, p + 2) THEN Whole(p + 2)
           ELSE NoMatch
      [] r = "import_comma" ->                            \* ,
           IF Ch(t, p) = "," THEN Whole(p + 1) ELSE NoMatch
      [] r = "import_namespace" ->                        \* [a-zA-Z_][\w.]*
           IF Ch(t, p) \in IdStart
           THEN Whole(Span(t, p + 1, WordChar \cup {"."})) ELSE NoMatch
      [] r = "fromimport_import" ->                       \* import\b
           IF Lit(t, p, "import") /\ WordBoundary(t, p + 6) THEN Whole(p + 6)
           ELSE NoMatch
      [] r = "fromimport_none" ->                         \* None\b
           IF Lit(t, p, "None") /\ WordBoundary(t, p + 4) THEN Whole(p + 4)
           ELSE NoMatch
      [] r = "fromimport_namespace" ->                    \* [a-zA-Z_.][\w.]*
           IF Ch(t, p) \in IdStart \cup {"."}
           THEN Whole(Span(t, p + 1, WordChar \cup {"."})) ELSE NoMatch

\* lexer.py:528-531, 'stringescape':
\* \\([\\abfnrtv"\']|\n|N\{.*?\}|u[a-fA-F0-9]{4}|U[a-fA-F0-9]{8}|
\*    x[a-fA-F0-9]{2}|[0-7]{1,3})
MatchStringEscape(t, p) ==
    LET c == Ch(t, p + 1)
        h == Span(t, p + 2, HexDigit) - (p + 2)
        o == Span(t, p + 1, OctDigit)
        n == FindInLine(t, p + 3, "}")
    IN  IF Ch(t, p) # "\\" THEN NoMatch
        ELSE IF c \in {"\\", "a", "b", "f", "n", "r", "t", "v", "\"", "'", "\n"}
        THEN Whole(p + 2)
        ELSE IF c = "N" /\ Ch(t, p + 2) = "{" /\ n >= 0 THEN Whole(n + 1)
        ELSE IF c = "u" /\ h >= 4 THEN Whole(p + 6)
        ELSE IF c = "U" /\ h >= 8 THEN Whole(p + 10)
        ELSE IF c = "x" /\ h >= 2 THEN Whole(p + 4)
        ELSE IF o > p + 1 THEN Whole(Min(o, p + 4))
        ELSE NoMatch

\* lexer.py:54-65, innerstring_rules (the states 'strings-single' and
\* 'strings-double', lexer.py:532-533).
MatchInnerString(r, t, p) ==
    CASE r = "interpol" ->
           \* %(\(\w+\))?[-#0 +]*([0-9]+|[*])?(\.([0-9]+|[*]))?[hlL]?
           \*   [E-GXc-giorsux%]
           LET k == Span(t, p + 2, WordChar)
               a == IF Ch(t, p + 1) = "(" /\ k > p + 2 /\ Ch(t, k) = ")"
                    THEN k + 1 ELSE p + 1
               b == Span(t, a, {"-", "#", "0", " ", "+"})
               c == IF Ch(t, b) = "*" THEN b + 1 ELSE Span(t, b, Digit)
               e == IF Ch(t, c + 1) = "*" THEN c + 2 ELSE Span(t, c + 1, Digit)
               f == IF Ch(t, c) = "." /\ e > c + 1 THEN e ELSE c
               g == IF Ch(t, f) \in {"h", "l", "L"} THEN f + 1 ELSE f
           IN  IF Ch(t, p) = "%" /\
                  Ch(t, g) \in {"E", "F", "G", "X", "c", "d", "e", "f", "g",
                                "i", "o", "r", "s", "u", "x", "%"}
               THEN Whole(g + 1) ELSE NoMatch
      [] r = "plain" ->                                   \* [^\\\'"%\n]+
           LET a == SpanNot(t, p, {"\\", "'", "\"", "%", "\n"})
           IN  IF a > p THEN Whole(a) ELSE NoMatch
      [] r = "quote_or_backslash" ->                      \* [\'"\\]
           IF Ch(t, p) \in {"'", "\"", "\\"} THEN Whole(p + 1) ELSE NoMatch
      [] r = "percent" ->                                 \* %
           IF Ch(t, p) = "%" THEN Whole(p + 1) ELSE NoMatch

\* lexer.py:534-553, the rules of 'dqs', 'sqs', 'tdqs' and 'tsqs' that are
\* not includes.
MatchStringStates(r, t, p) ==
    CASE r = "dqs_close" -> IF Ch(t, p) = "\"" THEN Whole(p + 1) ELSE NoMatch
      [] r = "dqs_escape" ->                              \* \\\\|\\"|\\\n
           IF \E s \in {"\\\\", "\\\"", "\\\n"} : Lit(t, p, s)
           THEN Whole(p + 2) ELSE NoMatch
      [] r = "sqs_close" -> IF Ch(t, p) = "'" THEN Whole(p + 1) ELSE NoMatch
      [] r = "sqs_escape" ->                              \* \\\\|\\'|\\\n
           IF \E s \in {"\\\\", "\\'", "\\\n"} : Lit(t, p, s)
           THEN Whole(p + 2) ELSE NoMatch
      [] r = "tdqs_close" ->
           IF Lit(t, p, "\"\"\"") THEN Whole(p + 3) ELSE NoMatch
      [] r = "tsqs_close" ->
           IF Lit(t, p, "'''") THEN Whole(p + 3) ELSE NoMatch
      [] r \in {"tdqs_newline", "tsqs_newline"} ->        \* \n
           IF Ch(t, p) = "\n" THEN Whole(p + 1) ELSE NoMatch

\* The pattern of a rule of the RenpyLexer table, by the rule's name.
MatchMain(r, t, p) ==
    CASE r \in {"keyword", "reserved", "declaration"} -> MatchKeywords(r, t, p)
      [] r = "special_label" -> MatchSpecialLabels(t, p)
      [] r = "screen_lang" -> MatchScreenLang(t, p)
      [] r = "property" -> MatchProperties(t, p)
      [] r = "screen_action" -> MatchScreenActions(t, p)
      [] r \in {"builtin", "builtin_pseudo", "exception"} -> MatchBuiltins(r, t, p)
      [] r \in {"magicfunc", "magicvar"} -> MatchMagic(r, t, p)
      [] r \in {"float", "float_exp", "oct", "bin", "hex", "long", "integer"} ->
           MatchNumbers(r, t, p)
      [] r \in {"backtick", "decorator", "name"} -> MatchName(r, t, p)
      [] r \in {"funcname_name", "funcname_default", "classname_name",
                "import_blank", "import_as", "import_comma", "import_namespace",
                "import_default", "fromimport_blank", "fromimport_import",
                "fromimport_none", "fromimport_namespace",
                "fromimport_default"} -> MatchNameStates(r, t, p)
      [] r = "stringescape" -> MatchStringEscape(t, p)
      [] r \in {"interpol", "plain", "quote_or_backslash", "percent"} ->
           MatchInnerString(r, t, p)
      [] r \in {"dqs_close", "dqs_escape", "sqs_close", "sqs_escape", "tdqs_close",
                "tdqs_newline", "tsqs_close", "tsqs_newline"} ->
           MatchStringStates(r, t, p)
      [] OTHER -> MatchRoot(r, t, p)

-----------------------------------------------------------------------------
(* The patterns of the RenpyTracebackLexer rule table.                     *)

\* '  File "[^"]+", line \d+' at p: the spans of '  File ', the quoted path,
\* ', line ' and the number, <<>> when the text at p is not of that form.
FileLine(t, p) ==
    LET a == p + 7
        b == SpanNot(t, a + 1, {"\""})
        c == b + 1
        d == c + 7
        e == Span(t, d, Digit)
    IN  IF /\ Lit(t, p, "  File ") /\ Ch(t, a) = "\"" /\ b > a + 1
           /\ Ch(t, b) = "\"" /\ Lit(t, c, ", line ") /\ e > d
        THEN <<<<p, a>>, <<a, c>>, <<c, d>>, <<d, e>>>>
        ELSE <<>>

\* lexer.py:650-674.
MatchTraceback(r, t, p) ==
    IF ~LineStart(t, p) THEN NoMatch
    ELSE
    CASE r = "tb_header" ->                     \* ^(\^C)?(Traceback.*\n)
           LET a == IF Lit(t, p, "^C") THEN p + 2 ELSE p
               b == SpanNot(t, a, {"\n"})
           IN  IF Lit(t, a, "Traceback") /\ Ch(t, b) = "\n"
               THEN Groups(b + 1, <<IF a > p THEN <<p, a>> ELSE NoGroup,
                                    <<a, b + 1>>>>)
               ELSE NoMatch
      [] r = "tb_file_ahead" ->                 \* ^(?=  File "[^"]+", line \d+)
           IF FileLine(t, p) # <<>> THEN Whole(p) ELSE NoMatch
      [] r = "tb_other" ->                      \* ^.*\n
           LET a == SpanNot(t, p, {"\n"})
           IN  IF Ch(t, a) = "\n" THEN Whole(a + 1) ELSE NoMatch
      [] r = "intb_file_in" ->
           \* ^(  File )("[^"]+")(, line )(\d+)(, in )(.+)(\n)
           LET f == FileLine(t, p)
               d == f[4][2]
               n == SpanNot(t, d + 5, {"\n"})
           IN  IF /\ f # <<>> /\ Lit(t, d, ", in ") /\ n > d + 5 /\ Ch(t, n) = "\n"
               THEN Groups(n + 1, f \o <<<<d, d + 5>>, <<d + 5, n>>, <<n, n + 1>>>>)
               ELSE NoMatch
      [] r = "intb_file" ->
           \* ^(  File )("[^"]+")(, line )(\d+)(\n)
           LET f == FileLine(t, p)
               d == f[4][2]
           IN  IF f # <<>> /\ Ch(t, d) = "\n"
               THEN Groups(d + 1, f \o <<<<d, d + 1>>>>)
               ELSE NoMatch
      [] r = "intb_snippet" ->                  \* ^(    )(.+)(\n)
           LET n == SpanNot(t, p + 4, {"\n"})
           IN  IF Lit(t, p, "    ") /\ n > p + 4 /\ Ch(t, n) = "\n"
               THEN Groups(n + 1, <<<<p, p + 4>>, <<p + 4, n>>, <<n, n + 1>>>>)
               ELSE NoMatch
      [] r = "intb_ellipsis" ->                 \* ^([ \t]*)(\.\.\.)(\n)
           LET a == Span(t, p, {" ", "\t"})
           IN  IF Lit(t, a, "...\n")
               THEN Groups(a + 4, <<<<p, a>>, <<a, a + 3>>, <<a + 3, a + 4>>>>)
               ELSE NoMatch
      [] r = "intb_error" ->                    \* ^([^:]+)(: )(.+)(\n)
           LET a == SpanNot(t, p, {":"})
               n == SpanNot(t, a + 2, {"\n"})
           IN  IF a > p /\ Lit(t, a, ": ") /\ n > a + 2 /\ Ch(t, n) = "\n"
               THEN Groups(n + 1, <<<<p, a>>, <<a, a + 2>>, <<a + 2, n>>,
                                    <<n, n + 1>>>>)
               ELSE NoMatch
      [] r = "intb_error_bare" ->               \* ^([a-zA-Z_]\w*)(:?\n)
           LET a == Span(t, p + 1, WordChar)
               b == IF Ch(t, a) = ":" THEN a + 1 ELSE a
           IN  IF Ch(t, p) \in IdStart /\ Ch(t, b) = "\n"
               THEN Groups(b + 1, <<<<p, a>>, <<a, b + 1>>>>)
               ELSE NoMatch

\* lexer.py:28-41, the patterns of RenpyBlockLexer's 'root'.
MatchBlock(r, t, p) ==
    CASE r = "block_name" ->                              \* [a-zA-Z_]\w*
           IF Ch(t, p) \in IdStart THEN Whole(Span(t, p + 1, WordChar))
           ELSE NoMatch
      [] r = "block_start" ->
           Whole(WordsEnd(BlockStartWords, BlockStartLens, t, p))
      [] r = "region" ->                                  \* # *region\b
           LET a == Span(t, p + 1, {" "})
           IN  IF Ch(t, p) = "#" /\ Lit(t, a, "region") /\ WordBoundary(t, a + 6)
               THEN Whole(a + 6) ELSE NoMatch
      [] r = "endregion" ->                               \* # *endregion\b
           LET a == Span(t, p + 1, {" "})
           IN  IF Ch(t, p) = "#" /\ Lit(t, a, "endregion") /\ WordBoundary(t, a + 9)
               THEN Whole(a + 9) ELSE NoMatch
      [] r = "block_end" ->
           Whole(WordsEnd(BlockEndWords, BlockEndLens, t, p))

Match(table, r, t, p) ==
    IF table = "traceback" THEN MatchTraceback(r, t, p)
    ELSE IF table = "block" THEN MatchBlock(r, t, p)
    ELSE MatchMain(r, t, p)

-----------------------------------------------------------------------------
(* The rule tables.  A rule is (pattern, action, new state) as in the      *)
(* source: m names the pattern, a is the action and s the transition ("":  *)
(* none, "#pop", or the state to push).  include(x) is the rule list of x  *)
(* spliced in place.                                                       *)

Rule(m, a, s) == [m |-> m, a |-> a, s |-> s]
\* A token type as action: the whole match is one token of that kind.
Tok(kind) == [type |-> "token", kinds |-> <<kind>>]
\* bygroups(k1, ..., kn): capture group i is a token of kind ki.
ByGroups(kinds) == [type |-> "bygroups", kinds |-> kinds]
\* default(s): matches the empty string, emits nothing.
Default == [type |-> "default", kinds |-> <<>>]
\* using(RenpyLexer) as a kind of bygroups.
UsingRenpyLexer == "using(RenpyLexer)"
\* combined(a, b): the name of the state made of a's rules, then b's.
Combined(a, b) == a \o "+" \o b

\* lexer.py:119-135
keywords ==
    << Rule("keyword", Tok("Keyword"), ""),
       Rule("reserved", Tok("Renpy.Reserved"), ""),
       Rule("declaration", Tok("Renpy.Declaration"), "") >>

\* lexer.py:136-140
special_labels == << Rule("special_label", Tok("Renpy.Label.Reserved"), "") >>

\* lexer.py:151-395
properties == << Rule("property", Tok("Renpy.Properties"), "") >>

\* lexer.py:141-150
screen_lang == << Rule("screen_lang", Tok("Renpy.Screen.Displayables"), "") >>

\* lexer.py:396-419
screen_actions == << Rule("screen_action", Tok("Renpy.Screen.Actions"), "") >>

\* lexer.py:420-453
builtins ==
    << Rule("builtin", Tok("Name.Builtin"), ""),
       Rule("builtin_pseudo", Tok("Name.Builtin.Pseudo"), ""),
       Rule("exception", Tok("Name.Exception"), "") >>

\* lexer.py:454-475
magicfuncs == << Rule("magicfunc", Tok("Name.Function.Magic"), "") >>

\* lexer.py:476-484
magicvars == << Rule("magicvar", Tok("Name.Variable.Magic"), "") >>

\* lexer.py:485-493
numbers ==
    << Rule("float", Tok("Number.Float"), ""),
       Rule("float_exp", Tok("Number.Float"), ""),
       Rule("oct", Tok("Number.Oct"), ""),
       Rule("bin", Tok("Number.Bin"), ""),
       Rule("hex", Tok("Number.Hex"), ""),
       Rule("long", Tok("Number.Integer.Long"), ""),
       Rule("integer", Tok("Number.Integer"), "") >>

\* lexer.py:494-496
backtick == << Rule("backtick", Tok("String.Backtick"), "") >>

\* 'name' with the '#pop' of the name rule of 'funcname'.
name_Pop ==
    << Rule("decorator", Tok("Name.Decorator"), ""),
       Rule("name", Tok("Name"), "#pop") >>

\* lexer.py:497-500
name ==
    << Rule("decorator", Tok("Name.Decorator"), ""),
       Rule("name", Tok("Name"), "") >>

\* 'funcname' whose default() makes no transition.
funcname_DefaultStays ==
    magicfuncs \o
    << Rule("funcname_name", Tok("Name.Function"), "#pop"),
       Rule("funcname_default", Default, "") >>

\* lexer.py:501-505
funcname ==
    magicfuncs \o
    << Rule("funcname_name", Tok("Name.Function"), "#pop"),
       Rule("funcname_default", Default, "#pop") >>

\* 'classname' closed by a default('#pop') as 'funcname' is.
classname_WithDefault ==
    << Rule("classname_name", Tok("Name.Class"), "#pop"),
       Rule("funcname_default", Default, "#pop") >>

\* lexer.py:506-508
classname == << Rule("classname_name", Tok("Name.Class"), "#pop") >>

\* 'import' closed by an empty pattern that emits a Text token.
import_EmptyPattern ==
    << Rule("import_blank", Tok("Text"), ""),
       Rule("import_as", Tok("Keyword.Namespace"), ""),
       Rule("import_comma", Tok("Operator"), ""),
       Rule("import_namespace", Tok("Name.Namespace"), ""),
       Rule("import_default", Tok("Text"), "#pop") >>

\* lexer.py:509-515
import ==
    << Rule("import_blank", Tok("Text"), ""),
       Rule("import_as", Tok("Keyword.Namespace"), ""),
       Rule("import_comma", Tok("Operator"), ""),
       Rule("import_namespace", Tok("Name.Namespace"), ""),
       Rule("import_default", Default, "#pop") >>

\* 'fromimport' closed by an empty pattern that emits a Text token.
fromimport_EmptyPattern ==
    << Rule("fromimport_blank", Tok("Text"), ""),
       Rule("fromimport_import", Tok("Keyword.Namespace"), "#pop"),
       Rule("fromimport_none", Tok("Name.Builtin.Pseudo"), "#pop"),
       Rule("fromimport_namespace", Tok("Name.Namespace"), ""),
       Rule("fromimport_default", Tok("Text"), "#pop") >>

\* lexer.py:516-527
fromimport ==
    << Rule("fromimport_blank", Tok("Text"), ""),
       Rule("fromimport_import", Tok("Keyword.Namespace"), "#pop"),
       Rule("fromimport_none", Tok("Name.Builtin.Pseudo"), "#pop"),
       Rule("fromimport_namespace", Tok("Name.Namespace"), ""),
       Rule("fromimport_default", Default, "#pop") >>

\* lexer.py:528-531
stringescape == << Rule("stringescape", Tok("String.Escape"), "") >>

\* lexer.py:54-65
innerstring_rules(ttype) ==
    << Rule("interpol", Tok("String.Interpol"), ""),
       Rule("plain", Tok(ttype), ""),
       Rule("quote_or_backslash", Tok(ttype), ""),
       Rule("percent", Tok(ttype), "") >>

\* lexer.py:532
strings_single == innerstring_rules("String.Single")
\* lexer.py:533
strings_double == innerstring_rules("String.Double")

\* 'dqs' whose closing quote does not leave the state.
dqs_NoPop ==
    << Rule("dqs_close", Tok("String.Double"), ""),
       Rule("dqs_escape", Tok("String.Escape"), "") >>
    \o strings_double

\* lexer.py:534-538
dqs ==
    << Rule("dqs_close", Tok("String.Double"), "#pop"),
       Rule("dqs_escape", Tok("String.Escape"), "") >>
    \o strings_double

\* 'sqs' whose closing quote enters 'sqs' again.
sqs_ClosePushes ==
    << Rule("sqs_close", Tok("String.Single"), "sqs"),
       Rule("sqs_escape", Tok("String.Escape"), "") >>
    \o strings_single

\* lexer.py:539-543
sqs ==
    << Rule("sqs_close", Tok("String.Single"), "#pop"),
       Rule("sqs_escape", Tok("String.Escape"), "") >>
    \o strings_single

\* lexer.py:544-548
tdqs ==
    << Rule("tdqs_close", Tok("String.Double"), "#pop") >>
    \o strings_double \o
    << Rule("tdqs_newline", Tok("String.Double"), "") >>

\* lexer.py:549-553
tsqs ==
    << Rule("tsqs_close", Tok("String.Single"), "#pop") >>
    \o strings_single \o
    << Rule("tsqs_newline", Tok("String.Single"), "") >>

\* lexer.py:68-118
root ==
    << Rule("newline", Tok("Text"), "") >>
    \o screen_lang \o
    << Rule("python_inline", Tok("Renpy.Python.Inline"), ""),
       Rule("renpy_function",
            ByGroups(<<"Renpy.Function.Builtin", "Renpy.Function.Arguments">>), "") >>
    \o screen_actions \o
    << Rule("dollar", Tok("String.Symbol"), ""),
       Rule("docstring_double", ByGroups(<<"Text", "String.Affix", "String.Doc">>), ""),
       Rule("docstring_single", ByGroups(<<"Text", "String.Affix", "String.Doc">>), ""),
       Rule("blank", Tok("Text"), ""),
       Rule("hashbang", Tok("Comment.Hashbang"), ""),
       Rule("comment", Tok("Comment.Single"), ""),
       Rule("punctuation", Tok("Punctuation"), ""),
       Rule("backslash_newline", Tok("Text"), ""),
       Rule("backslash", Tok("Text"), ""),
       Rule("operator_word", Tok("Operator.Word"), ""),
       Rule("operator", Tok("Operator"), "") >>
    \o keywords \o special_labels \o
    << Rule("def", ByGroups(<<"Keyword", "Text">>), "funcname"),
       Rule("class", ByGroups(<<"Keyword", "Text">>), "classname"),
       Rule("from", ByGroups(<<"Keyword.Namespace", "Text">>), "fromimport"),
       Rule("import", ByGroups(<<"Keyword.Namespace", "Text">>), "import") >>
    \o builtins \o magicfuncs \o magicvars \o backtick \o
    << Rule("raw_tdqs", ByGroups(<<"String.Affix", "String.Double">>), "tdqs"),
       Rule("raw_tsqs", ByGroups(<<"String.Affix", "String.Single">>), "tsqs"),
       Rule("raw_dqs", ByGroups(<<"String.Affix", "String.Double">>), "dqs"),
       Rule("raw_sqs", ByGroups(<<"String.Affix", "String.Single">>), "sqs"),
       Rule("open_tdqs", ByGroups(<<"String.Affix", "String.Double">>),
            Combined("stringescape", "tdqs")),
       Rule("open_tsqs", ByGroups(<<"String.Affix", "String.Single">>),
            Combined("stringescape", "tsqs")),
       Rule("open_dqs", ByGroups(<<"String.Affix", "String.Double">>),
            Combined("stringescape", "dqs")),
       Rule("open_sqs", ByGroups(<<"String.Affix", "String.Single">>),
            Combined("stringescape", "sqs")) >>
    \o name \o numbers

\* RenpyLexer.tokens with 'properties' included first in 'root'.
RenpyLexer_tokens_PropertiesIncluded(state) ==
    CASE state = "root" -> properties \o root
      [] state = "funcname" -> funcname
      [] state = "classname" -> classname
      [] state = "import" -> import
      [] state = "fromimport" -> fromimport
      [] state = "properties" -> properties
      [] state = "dqs" -> dqs
      [] state = "sqs" -> sqs
      [] state = "tdqs" -> tdqs
      [] state = "tsqs" -> tsqs
      [] state = Combined("stringescape", "dqs") -> stringescape \o dqs
      [] state = Combined("stringescape", "sqs") -> stringescape \o sqs
      [] state = Combined("stringescape", "tdqs") -> stringescape \o tdqs
      [] state = Combined("stringescape", "tsqs") -> stringescape \o tsqs

\* RenpyLexer.tokens with 'special_labels' included first in 'root'.
RenpyLexer_tokens_LabelsFirst(state) ==
    CASE state = "root" -> special_labels \o root
      [] state = "funcname" -> funcname
      [] state = "classname" -> classname
      [] state = "import" -> import
      [] state = "fromimport" -> fromimport
      [] state = "properties" -> properties
      [] state = "dqs" -> dqs
      [] state = "sqs" -> sqs
      [] state = "tdqs" -> tdqs
      [] state = "tsqs" -> tsqs
      [] state = Combined("stringescape", "dqs") -> stringescape \o dqs
      [] state = Combined("stringescape", "sqs") -> stringescape \o sqs
      [] state = Combined("stringescape", "tdqs") -> stringescape \o tdqs
      [] state = Combined("stringescape", "tsqs") -> stringescape \o tsqs

\* RenpyLexer.tokens with the rules of 'numbers' tried first in 'root'.
RenpyLexer_tokens_NumbersFirst(state) ==
    CASE state = "root" -> numbers \o root
      [] state = "funcname" -> funcname
      [] state = "classname" -> classname
      [] state = "import" -> import
      [] state = "fromimport" -> fromimport
      [] state = "properties" -> properties
      [] state = "dqs" -> dqs
      [] state = "sqs" -> sqs
      [] state = "tdqs" -> tdqs
      [] state = "tsqs" -> tsqs
      [] state = Combined("stringescape", "dqs") -> stringescape \o dqs
      [] state = Combined("stringescape", "sqs") -> stringescape \o sqs
      [] state = Combined("stringescape", "tdqs") -> stringescape \o tdqs
      [] state = Combined("stringescape", "tsqs") -> stringescape \o tsqs

\* RenpyLexer.tokens whose combined states try 'stringescape' last.
RenpyLexer_tokens_EscapeLast(state) ==
    CASE state = "root" -> root
      [] state = "funcname" -> funcname
      [] state = "classname" -> classname
      [] state = "import" -> import
      [] state = "fromimport" -> fromimport
      [] state = "properties" -> properties
      [] state = "dqs" -> dqs
      [] state = "sqs" -> sqs
      [] state = "tdqs" -> tdqs
      [] state = "tsqs" -> tsqs
      [] state = Combined("stringescape", "dqs") -> dqs \o stringescape
      [] state = Combined("stringescape", "sqs") -> sqs \o stringescape
      [] state = Combined("stringescape", "tdqs") -> tdqs \o stringescape
      [] state = Combined("stringescape", "tsqs") -> tsqs \o stringescape

\* RenpyLexer.tokens, lexer.py:67-554, with the states combined() makes.
RenpyLexer_tokens(state) ==
    CASE state = "root" -> root
      [] state = "funcname" -> funcname
      [] state = "classname" -> classname
      [] state = "import" -> import
      [] state = "fromimport" -> fromimport
      [] state = "properties" -> properties
      [] state = "dqs" -> dqs
      [] state = "sqs" -> sqs
      [] state = "tdqs" -> tdqs
      [] state = "tsqs" -> tsqs
      [] state = Combined("stringescape", "dqs") -> stringescape \o dqs
      [] state = Combined("stringescape", "sqs") -> stringescape \o sqs
      [] state = Combined("stringescape", "tdqs") -> stringescape \o tdqs
      [] state = Combined("stringescape", "tsqs") -> stringescape \o tsqs

\* lexer.py:651-659
tb_root ==
    << Rule("tb_header", ByGroups(<<"Text", "Generic.Traceback">>), "intb"),
       Rule("tb_file_ahead", Tok("Generic.Traceback"), "intb"),
       Rule("tb_other", Tok("Other"), "") >>

\* 'intb' whose snippet rule emits the snippet as one Text token.
intb_SnippetAsText ==
    << Rule("intb_file_in",
            ByGroups(<<"Text", "Name.Builtin", "Text", "Number", "Text", "Name",
                       "Text">>), ""),
       Rule("intb_file",
            ByGroups(<<"Text", "Name.Builtin", "Text", "Number", "Text">>), ""),
       Rule("intb_snippet", ByGroups(<<"Text", "Text", "Text">>), ""),
       Rule("intb_ellipsis", ByGroups(<<"Text", "Comment", "Text">>), ""),
       Rule("intb_error",
            ByGroups(<<"Generic.Error", "Text", "Name", "Text">>), "#pop"),
       Rule("intb_error_bare", ByGroups(<<"Generic.Error", "Text">>), "#pop") >>

\* lexer.py:660-673
intb ==
    << Rule("intb_file_in",
            ByGroups(<<"Text", "Name.Builtin", "Text", "Number", "Text", "Name",
                       "Text">>), ""),
       Rule("intb_file",
            ByGroups(<<"Text", "Name.Builtin", "Text", "Number", "Text">>), ""),
       Rule("intb_snippet", ByGroups(<<"Text", UsingRenpyLexer, "Text">>), ""),
       Rule("intb_ellipsis", ByGroups(<<"Text", "Comment", "Text">>), ""),
       Rule("intb_error",
            ByGroups(<<"Generic.Error", "Text", "Name", "Text">>), "#pop"),
       Rule("intb_error_bare", ByGroups(<<"Generic.Error", "Text">>), "#pop") >>

\* RenpyTracebackLexer.tokens whose 'intb' ends with the File lookahead of
\* 'root', leaving the state.
RenpyTracebackLexer_tokens_LookaheadPops(state) ==
    CASE state = "root" -> tb_root
      [] state = "intb" ->
           intb \o << Rule("tb_file_ahead", Tok("Generic.Traceback"), "#pop") >>

\* RenpyTracebackLexer.tokens, lexer.py:650-674.
RenpyTracebackLexer_tokens(state) ==
    CASE state = "root" -> tb_root
      [] state = "intb" -> intb

\* RenpyBlockLexer's 'root' with the identifier rule tried last.
RenpyBlockLexer_root_NameLast ==
    << Rule("block_start", Tok("Block.Start"), ""),
       Rule("region", Tok("Block.Start"), ""),
       Rule("endregion", Tok("Block.End"), ""),
       Rule("block_end", Tok("Block.End"), ""),
       Rule("block_name", Tok("Name"), "") >>

\* lexer.py:28-41
RenpyBlockLexer_root ==
    << Rule("block_name", Tok("Name"), ""),
       Rule("block_start", Tok("Block.Start"), ""),
       Rule("region", Tok("Block.Start"), ""),
       Rule("endregion", Tok("Block.End"), ""),
       Rule("block_end", Tok("Block.End"), "") >>

\* RenpyBlockLexer.tokens, lexer.py:27-42.
RenpyBlockLexer_tokens(state) ==
    CASE state = "root" -> RenpyBlockLexer_root

\* The resolved rule list of a state of a table.
StateRules(table, state) ==
    IF table = "traceback" THEN RenpyTracebackLexer_tokens(state)
    ELSE IF table = "block" THEN RenpyBlockLexer_tokens(state)
    ELSE RenpyLexer_tokens(state)

-----------------------------------------------------------------------------
(* The state-stack executor.  A token is (offset, kind, text), its text a  *)
(* slice of the input.                                                     *)

Token(o, k, v) == [offset |-> o, kind |-> k, text |-> v]

\* F applied to the value of v: a local variable, its value computed once.
Let(v, F(_)) == CHOOSE r \in {F(x) : x \in {v}} : TRUE

\* The tokens of ts with every offset increased by d.
Shift(ts, d) == [i \in 1..Len(ts) |-> [ts[i] EXCEPT !.offset = @ + d]]

\* The texts of the tokens of ts, concatenated in order.
RECURSIVE Concat(_)
Concat(ts) == IF ts = <<>> THEN <<>> ELSE Head(ts).text \o Concat(Tail(ts))

\* The transition of a rule applied to the stack: '#pop' keeps the bottom
\* state, a state name is pushed.
NewStack(stack, s) ==
    IF s = "" THEN stack
    ELSE IF s = "#pop"
    THEN IF Len(stack) > 1 THEN SubSeq(stack, 1, Len(stack) - 1) ELSE stack
    ELSE Append(stack, s)

\* The index of the first rule from i on whose pattern matches at p, 0 when
\* there is none.
FirstMatch(table, rules, i, t, p) ==
    LET hits == {j \in i..Len(rules) : Match(table, rules[j].m, t, p).e >= 0}
    IN  IF hits = {} THEN 0 ELSE CHOOSE j \in hits : \A k \in hits : j <= k

RECURSIVE LexFrom(_, _, _, _)
RECURSIVE Step(_, _, _, _)

\* bygroups: the tokens of the capture groups i.. of a match, group i paired
\* with kinds[i]; an empty or absent group gives no token, and a group paired
\* with using(RenpyLexer) is tokenized by the main table from its root, the
\* offsets rebased to the group's start.
RECURSIVE GroupTokens(_, _, _, _)
GroupTokens(kinds, g, t, i) ==
    IF i > Len(kinds) THEN <<>>
    ELSE LET a == g[i][1]
             b == g[i][2]
             here == IF g[i] = NoGroup THEN <<>>
                     ELSE IF kinds[i] = UsingRenpyLexer
                     THEN Let(Slice(t, a, b),
                              LAMBDA v : Shift(LexFrom("main", v, 0, <<"root">>), a))
                     ELSE IF a = b THEN <<>>
                     ELSE <<Token(a, kinds[i], Slice(t, a, b))>>
         IN  here \o GroupTokens(kinds, g, t, i + 1)

\* The tokens a rule emits for its match m at p.
RuleTokens(a, m, t, p) ==
    CASE a.type = "token" -> <<Token(p, a.kinds[1], Slice(t, p, m.e))>>
      [] a.type = "bygroups" -> GroupTokens(a.kinds, m.g, t, 1)
      [] a.type = "default" -> <<>>

\* One step of the executor at p < Len(t): the first matching rule of the
\* state on top of the stack emits its tokens, moves the cursor to the end
\* of its match and applies its transition; when no rule matches, one Error
\* token of one character is emitted and the cursor advances by one.
Step(table, t, p, stack) ==
    LET NoRule ==
            [index |-> 0, rule |-> "", s |-> "",
             toks |-> <<Token(p, "Error", Slice(t, p, p + 1))>>,
             pos |-> p + 1, stack |-> stack]
        Fire(i, r) ==
            Let(Match(table, r.m, t, p),
                LAMBDA m : [index |-> i, rule |-> r.m, s |-> r.s,
                            toks |-> RuleTokens(r.a, m, t, p),
                            pos |-> m.e, stack |-> NewStack(stack, r.s)])
    IN  Let(StateRules(table, stack[Len(stack)]),
            LAMBDA rules :
                Let(FirstMatch(table, rules, 1, t, p),
                    LAMBDA i : IF i = 0 THEN NoRule ELSE Fire(i, rules[i])))

\* get_tokens_unprocessed: the tokens of t from p on, the executor started
\* with the given stack.
LexFrom(table, t, p, stack) ==
    IF p >= Len(t) THEN <<>>
    ELSE Let(Step(table, t, p, stack),
             LAMBDA s : s.toks \o LexFrom(table, t, s.pos, s.stack))

get_tokens_unprocessed(table, t) ==
    Let(t, LAMBDA v : LexFrom(table, v, 0, <<"root">>))

-----------------------------------------------------------------------------
(* The insertion merger, do_insertions(insertions, tokens).  An insertion  *)
(* is <<index, tokens>>.                                                   *)

\* v[a:b] with Python's treatment of negative and out-of-range indices.
PySlice(v, a, b) ==
    LET norm(x) == IF x < 0 THEN (IF Len(v) + x < 0 THEN 0 ELSE Len(v) + x)
                   ELSE Min(x, Len(v))
    IN  SubSeq(v, norm(a) + 1, norm(b))

\* The tokens of an insertion laid out from realpos on.
RECURSIVE Place(_, _)
Place(itokens, realpos) ==
    IF itokens = <<>> THEN <<>>
    ELSE <<Token(realpos, Head(itokens).kind, Head(itokens).text)>>
         \o Place(Tail(itokens), realpos + Len(Head(itokens).text))

\* The inner loop for one base token: while an insertion is left (k) whose
\* index lies within or at the end of the token, emit the part of the token
\* before the index, then the insertion's tokens.
RECURSIVE InsertLoop(_, _, _, _, _, _)
InsertLoop(ins, k, tok, oldi, realpos, acc) ==
    IF k <= Len(ins) /\ tok.offset + Len(tok.text) >= ins[k][1]
    THEN LET index == ins[k][1]
             Emit(tmpval, placed) ==
                 InsertLoop(ins, k + 1, tok, index - tok.offset,
                            realpos + Len(tmpval) + Len(Concat(placed)),
                            (IF tmpval # <<>>
                             THEN Append(acc, Token(realpos, tok.kind, tmpval))
                             ELSE acc) \o placed)
         IN  Let(PySlice(tok.text, oldi, index - tok.offset),
                 LAMBDA tmpval :
                     Let(Place(ins[k][2], realpos + Len(tmpval)),
                         LAMBDA placed : Emit(tmpval, placed)))
    ELSE [k |-> k, oldi |-> oldi, realpos |-> realpos, acc |-> acc]

\* The insertions left when the base tokens are exhausted.
RECURSIVE Leftover(_, _, _)
Leftover(ins, k, realpos) ==
    IF k > Len(ins) THEN <<>>
    ELSE LET placed == Place(ins[k][2], realpos)
         IN  placed \o Leftover(ins, k + 1, realpos + Len(Concat(placed)))

\* The loop over the base tokens from the j-th on; realpos -1 is None.
RECURSIVE MergeFrom(_, _, _, _, _)
MergeFrom(ins, toks, j, k, realpos) ==
    IF j > Len(toks) THEN Leftover(ins, k, IF realpos = -1 THEN 0 ELSE realpos)
    ELSE LET tok == toks[j]
             n == Len(tok.text)
             rest(w) == IF w.oldi < n
                        THEN <<Token(w.realpos, tok.kind, PySlice(tok.text, w.oldi, n))>>
                        ELSE <<>>
         IN  Let(InsertLoop(ins, k, tok, 0,
                            IF realpos = -1 THEN tok.offset ELSE realpos, <<>>),
                 LAMBDA w :
                     w.acc \o rest(w) \o
                     MergeFrom(ins, toks, j + 1, w.k,
                               IF w.oldi < n THEN w.realpos + n - w.oldi
                               ELSE w.realpos))

do_insertions(ins, toks) ==
    IF ins = <<>> THEN toks ELSE Let(toks, LAMBDA ts : MergeFrom(ins, ts, 1, 1, -1))

-----------------------------------------------------------------------------
(* The console dispatcher, RenpyConsoleLexer.get_tokens_unprocessed.       *)

\* A line pattern that also matches a last line without a newline.
line_re_AcceptsTail(t, p) ==
    LET a == SpanNot(t, p, {"\n"})
    IN  IF a < Len(t) THEN a + 1 ELSE IF p < Len(t) THEN Len(t) ELSE -1

\* line_re = '.*?\n' matched from p: the end of the line that starts at p,
\* -1 when no newline follows p.
line_re(t, p) ==
    LET a == SpanNot(t, p, {"\n"}) IN IF a < Len(t) THEN a + 1 ELSE -1

\* The test for the two markers without the space that follows them.
IsPromptLine_NoSpace(line) == Lit(line, 0, ">>>") \/ Lit(line, 0, "...")

\* The test for the primary prompt alone.
IsPromptLine_PrimaryOnly(line) == Lit(line, 0, ">>> ")

\* line.startswith(u'>>> ') or line.startswith(u'... ')
IsPromptLine(line) == Lit(line, 0, ">>> ") \/ Lit(line, 0, "... ")

\* The test for the marker as a prefix of the line.
IsBareContinuation_Prefix(line) == Lit(line, 0, "...")

\* line.rstrip() == u'...'
IsBareContinuation(line) == Lit(line, 0, "...") /\ Span(line, 3, Space) = Len(line)

\* The header test that also accepts the KeyboardInterrupt line.
IsTracebackHeader_OrInterrupt(line) ==
    \/ Lit(line, 0, "Traceback (most recent call last):")
    \/ Lit(line, 0, "KeyboardInterrupt")
    \/ /\ FileLine(line, 0) # <<>>
       /\ Ch(line, FileLine(line, 0)[4][2]) = "\n"
       /\ FileLine(line, 0)[4][2] + 1 = Len(line)

\* line.startswith(u'Traceback (most recent call last):') or
\* re.match(u'  File "[^"]+", line \\d+\\n$', line)
IsTracebackHeader(line) ==
    \/ Lit(line, 0, "Traceback (most recent call last):")
    \/ /\ FileLine(line, 0) # <<>>
       /\ Ch(line, FileLine(line, 0)[4][2]) = "\n"
       /\ FileLine(line, 0)[4][2] + 1 = Len(line)

\* The test for an indented line alone.
ContinuesTraceback_IndentOnly(line) == Ch(line, 0) = " "

\* line.startswith(' ') or line.strip() == u'...'
ContinuesTraceback(line) ==
    \/ Ch(line, 0) = " "
    \/ LET a == Span(line, 0, Space)
       IN  Lit(line, a, "...") /\ Span(line, a + 3, Space) = Len(line)

\* A merge that never splits a base token: each insertion's tokens go in
\* front of the first base token that starts at or after its index.
RECURSIVE WholeTokens(_, _, _, _)
WholeTokens(ins, toks, j, k) ==
    IF k <= Len(ins) /\ (j > Len(toks) \/ toks[j].offset >= ins[k][1])
    THEN ins[k][2] \o WholeTokens(ins, toks, j, k + 1)
    ELSE IF j <= Len(toks) THEN <<toks[j]>> \o WholeTokens(ins, toks, j + 1, k)
    ELSE <<>>

FlushCode_WholeTokens(code, ins) ==
    WholeTokens(ins, get_tokens_unprocessed("main", code), 1, 1)

\* An insertion recorded at the start of the buffer whatever its length.
Insertion_AtStart(code, marker) == <<0, <<Token(0, "Generic.Prompt", marker)>>>>

\* (len(curcode), [(0, Generic.Prompt, marker)])
Insertion(code, marker) == <<Len(code), <<Token(0, "Generic.Prompt", marker)>>>>

\* do_insertions(insertions, pylexer.get_tokens_unprocessed(curcode))
FlushCode(code, ins) == do_insertions(ins, get_tokens_unprocessed("main", code))

\* for i, t, v in tblexer.get_tokens_unprocessed(curtb): yield tbindex + i, t, v
FlushTraceback(block, index) ==
    Shift(get_tokens_unprocessed("traceback", block), index)

-----------------------------------------------------------------------------
(* The inputs: every text made of at most MaxFragments pieces.             *)

MaxMainFragments == 2
MaxTracebackFragments == 2
MaxConsoleFragments == 3
MaxFairConsoleFragments == 2
MaxBlockFragments == 2

\* Pieces of script text with block words, region comments and blank lines.
BlockFragments ==
    { <<"i", "f">>,
      <<"p", "a", "s", "s">>,
      <<"y", "i", "e", "l", "d", " ", "f", "r", "o", "m">>,
      <<"x">>,
      <<" ">>,
      <<"1">>,
      <<"\n">>,
      <<"\n", "\n">>,
      <<"#", " ", "r", "e", "g", "i", "o", "n">>,
      <<"#", "e", "n", "d", "r", "e", "g", "i", "o", "n">>,
      <<"#", " ", "*", "e", "n", "d", "r", "e", "g", "i", "o", "n">> }

\* Pieces of script text.
MainFragments ==
    { <<"i", "f">>,
      <<"x">>,
      <<"1">>,
      <<" ">>,
      <<"\n">>,
      <<".">>,
      <<"i", "m", ".", "a", "(", "b", ")">>,
      <<"d", "e", "f", " ">>,
      <<"c", "l", "a", "s", "s", " ">>,
      <<"\"">>,
      <<"!">>,
      <<"i", "m", "p", "o", "r", "t", " ">>,
      <<"f", "r", "o", "m", " ">> }

\* Lines of traceback text, and an unterminated tail.
TracebackFragments ==
    { <<"T", "r", "a", "c", "e", "b", "a", "c", "k", " ", "(", "m", "o", "s", "t", " ",
        "r", "e", "c", "e", "n", "t", " ", "c", "a", "l", "l", " ", "l", "a", "s", "t", ")",
        ":", "\n">>,
      <<" ", " ", "F", "i", "l", "e", " ", "\"", "a", "\"", ",", " ", "l", "i", "n", "e",
        " ", "1", ",", " ", "i", "n", " ", "f", "\n">>,
      <<" ", " ", "F", "i", "l", "e", " ", "\"", "a", "\"", ",", " ", "l", "i", "n", "e",
        " ", "1", "\n">>,
      <<" ", " ", " ", " ", "x", "\n">>,
      <<".", ".", ".", "\n">>,
      <<"E", ":", " ", "m", "\n">>,
      <<"E", "\n">>,
      <<" ", " ", "F", "i", "l", "e", " ", "\"", "a", "\"", ",", " ", "l", "i", "n", "e",
        " ", "1", " ", "z", "\n">>,
      <<"x">> }

\* Lines of a console transcript, and an unterminated tail.
ConsoleFragments ==
    { <<">", ">", ">", " ", "x", "\n">>,
      <<".", ".", ".", " ", "y", "\n">>,
      <<".", ".", ".", "\n">>,
      <<"o", "u", "t", "\n">>,
      <<"T", "r", "a", "c", "e", "b", "a", "c", "k", " ", "(", "m", "o", "s", "t", " ",
        "r", "e", "c", "e", "n", "t", " ", "c", "a", "l", "l", " ", "l", "a", "s", "t", ")",
        ":", "\n">>,
      <<" ", " ", "F", "i", "l", "e", " ", "\"", "a", "\"", ",", " ", "l", "i", "n", "e",
        " ", "1", "\n">>,
      <<"K", "e", "y", "b", "o", "a", "r", "d", "I", "n", "t", "e", "r", "r", "u", "p",
        "t", "\n">>,
      <<"E", ":", " ", "m", "\n">>,
      <<"z">> }

RECURSIVE Flatten(_, _)
Flatten(pieces, i) ==
    IF i > Len(pieces) THEN <<>> ELSE pieces[i] \o Flatten(pieces, i + 1)

Texts(fragments, n) ==
    {Flatten(f, 1) : f \in UNION {[1..k -> fragments] : k \in 0..n}}

\* A label line followed by an indented say statement.
LabelScenario ==
    << "l", "a", "b", "e", "l", " ", "s", "t", "a", "r", "t", ":", "\n", " ",
       " ", " ", " ", "\"", "H", "e", "l", "l", "o", "\"", "\n" >>

\* A console session whose string literal spans two prompt lines.
DocStringSession ==
    << ">", ">", ">", " ", "\"", "\"", "\"", "a", "\n", ".", ".", ".", " ",
       "b", "\"", "\"", "\"", "\n" >>

\* A console session that calls a renpy function.
CallSession ==
    << ">", ">", ">", " ", "i", "m", ".", "a", "(", "b", ")", "\n", ">", ">",
       ">", " ", "x", "\n" >>

\* A prompt line followed by an output line that begins with three dots.
EllipsisOutput ==
    << ">", ">", ">", " ", "x", "\n", ".", ".", ".", "x", "\n" >>

ConsoleScenarios == {DocStringSession, CallSession, EllipsisOutput}

\* A traceback with a frame and an error line, followed by a plain line.
TracebackReport ==
    << "T", "r", "a", "c", "e", "b", "a", "c", "k", " ", "(", "m", "o", "s",
       "t", " ", "r", "e", "c", "e", "n", "t", " ", "c", "a", "l", "l", " ",
       "l", "a", "s", "t", ")", ":", "\n", " ", " ", "F", "i", "l", "e", " ",
       "\"", "a", "\"", ",", " ", "l", "i", "n", "e", " ", "1", ",", " ", "i",
       "n", " ", "f", "\n", "E", ":", " ", "m", "\n", "p", "l", "a", "i", "n",
       "\n" >>

\* A traceback closed by a bare error class, followed by a plain line.
BareErrorReport ==
    << "T", "r", "a", "c", "e", "b", "a", "c", "k", " ", "(", "m", "o", "s",
       "t", " ", "r", "e", "c", "e", "n", "t", " ", "c", "a", "l", "l", " ",
       "l", "a", "s", "t", ")", ":", "\n", "E", "\n", "n", "o", "t", "e", ":",
       " ", "x", "\n" >>

\* A traceback whose frame shows a line of code with a string in it.
SnippetReport ==
    << "T", "r", "a", "c", "e", "b", "a", "c", "k", " ", "(", "m", "o", "s",
       "t", " ", "r", "e", "c", "e", "n", "t", " ", "c", "a", "l", "l", " ",
       "l", "a", "s", "t", ")", ":", "\n", " ", " ", "F", "i", "l", "e", " ",
       "\"", "a", "\"", ",", " ", "l", "i", "n", "e", " ", "1", ",", " ", "i",
       "n", " ", "f", "\n", " ", " ", " ", " ", "x", " ", "=", " ", "\"", "a",
       "\"", "\n", "E", ":", " ", "m", "\n" >>

TracebackScenarios == {TracebackReport, BareErrorReport, SnippetReport}

\* A double-quoted string that holds the escape backslash-n.
EscapedString ==
    << "\"", "\\", "n", "\"" >>

\* A single-quoted string.
SingleQuoted ==
    << "'", "a", "'" >>

\* A triple-double-quoted string of two lines after a name.
TripleDouble ==
    << "x", "\"", "\"", "\"", "a", "\n", "\"", "\"", "\"" >>

\* A triple-single-quoted string after a name.
TripleSingle ==
    << "x", "'", "'", "'", "a", "'", "'", "'" >>

\* A style property after two levels of indentation.
PropertyLine ==
    << " ", " ", " ", " ", " ", " ", " ", " ", "x", "p", "o", "s", " ", "1", "\n" >>

MainScenarios ==
    {LabelScenario, EscapedString, SingleQuoted, TripleDouble, TripleSingle,
     PropertyLine}

Inputs(m) ==
    CASE m = "main" -> Texts(MainFragments, MaxMainFragments) \cup MainScenarios
      [] m = "traceback" ->
           Texts(TracebackFragments, MaxTracebackFragments) \cup TracebackScenarios
      [] m = "console" ->
           Texts(ConsoleFragments, MaxConsoleFragments) \cup ConsoleScenarios
      [] m = "block" -> Texts(BlockFragments, MaxBlockFragments)

-----------------------------------------------------------------------------
(* The state machine.  mode is the lexer in use and text its input.  In    *)
(* the main, traceback and block modes pos and statestack are the executor's      *)
(* cursor and stack, and last records its latest step: the rule that       *)
(* fired (index 0: none matched), the stack and cursor before it, the      *)
(* cursor after it and the tokens it emitted.  In console mode pos is the   *)
(* start of the next line and curcode, insertions, curtb, tbindex and tb   *)
(* are the dispatcher's locals.  out is the token stream produced so far.  *)

NoStep == [index |-> -1, rule |-> "", s |-> "", stack |-> <<>>, from |-> 0,
           to |-> 0, toks |-> <<>>]

Init ==
    /\ mode \in {"main", "traceback", "console", "block"}
    /\ text \in Inputs(mode)
    /\ pos = 0
    /\ statestack = <<"root">>
    /\ out = <<>>
    /\ last = NoStep
    /\ done = FALSE
    /\ curcode = <<>>
    /\ insertions = <<>>
    /\ curtb = <<>>
    /\ tbindex = 0
    /\ tb = 0

\* One iteration of the executor's loop.
ExecStep ==
    /\ mode \in {"main", "traceback", "block"}
    /\ ~done
    /\ pos < Len(text)
    /\ \E s \in {Step(mode, text, pos, statestack)} :
           /\ out' = out \o s.toks
           /\ pos' = s.pos
           /\ statestack' = s.stack
           /\ last' = [index |-> s.index, rule |-> s.rule, s |-> s.s,
                       stack |-> statestack, from |-> pos, to |-> s.pos,
                       toks |-> s.toks]
    /\ UNCHANGED <<mode, text, done, curcode, insertions, curtb, tbindex, tb>>

\* The executor's loop ends at the end of the text.
ExecStop ==
    /\ mode \in {"main", "traceback", "block"}
    /\ ~done
    /\ pos >= Len(text)
    /\ done' = TRUE
    /\ UNCHANGED <<mode, text, pos, statestack, out, last, curcode, insertions,
                   curtb, tbindex, tb>>

\* A flush test that leaves the insertion list as it is.
InsertionsAfterFlush_Kept(code, ins) == ins

\* The insertion list after the flush test of the else branch
\* (lexer.py:607-613): emptied together with a non-empty code buffer.
InsertionsAfterFlush(code, ins) == IF code # <<>> THEN <<>> ELSE ins

\* One iteration of the dispatcher's loop over the lines (lexer.py:592-629).
ConsoleLine ==
    /\ mode = "console"
    /\ ~done
    /\ line_re(text, pos) >= 0
    /\ \E e \in {line_re(text, pos)} :
       \E line \in {Slice(text, pos, e)} :
       \E flushed \in {IF curcode # <<>> THEN FlushCode(curcode, insertions) ELSE <<>>} :
           /\ pos' = e
           /\ IF IsPromptLine(line)
              THEN /\ tb' = 0
                   /\ insertions' = Append(insertions,
                                           Insertion(curcode, Slice(line, 0, 4)))
                   /\ curcode' = curcode \o Slice(line, 4, Len(line))
                   /\ UNCHANGED <<out, curtb, tbindex>>
              ELSE IF IsBareContinuation(line) /\ tb = 0
              THEN /\ insertions' = Append(insertions,
                                           Insertion(curcode, <<".", ".", ".">>))
                   /\ curcode' = curcode \o Slice(line, 3, Len(line))
                   /\ UNCHANGED <<out, curtb, tbindex, tb>>
              ELSE /\ curcode' = <<>>
                   /\ insertions' = InsertionsAfterFlush(curcode, insertions)
                   /\ IF IsTracebackHeader(line)
                      THEN /\ tb' = 1
                           /\ curtb' = line
                           /\ tbindex' = pos
                           /\ out' = out \o flushed
                      ELSE IF Str(line, 0, Len(line)) = "KeyboardInterrupt\n"
                      THEN /\ out' = out \o flushed \o <<Token(pos, "Name.Class", line)>>
                           /\ UNCHANGED <<curtb, tbindex, tb>>
                      ELSE IF tb # 0
                      THEN IF ~ContinuesTraceback(line)
                           THEN /\ tb' = 0
                                /\ out' = out \o flushed
                                            \o FlushTraceback(curtb \o line, tbindex)
                                /\ curtb' = <<>>
                                /\ UNCHANGED tbindex
                           ELSE /\ curtb' = curtb \o line
                                /\ out' = out \o flushed
                                /\ UNCHANGED <<tbindex, tb>>
                      ELSE /\ out' = out \o flushed \o <<Token(pos, "Generic.Output", line)>>
                           /\ UNCHANGED <<curtb, tbindex, tb>>
    /\ UNCHANGED <<mode, text, statestack, last, done>>

\* An end of the transcript that flushes the pending code alone.
ConsoleEnd_CodeOnly ==
    /\ mode = "console"
    /\ ~done
    /\ line_re(text, pos) < 0
    /\ out' = out \o (IF curcode # <<>> THEN FlushCode(curcode, insertions) ELSE <<>>)
    /\ done' = TRUE
    /\ UNCHANGED <<mode, text, pos, statestack, last, curcode, insertions, curtb,
                   tbindex, tb>>

\* After the last line: the pending code, then the pending traceback block
\* (lexer.py:630-636).
ConsoleEnd ==
    /\ mode = "console"
    /\ ~done
    /\ line_re(text, pos) < 0
    /\ out' = out \o (IF curcode # <<>> THEN FlushCode(curcode, insertions) ELSE <<>>)
                  \o (IF curtb # <<>> THEN FlushTraceback(curtb, tbindex) ELSE <<>>)
    /\ done' = TRUE
    /\ UNCHANGED <<mode, text, pos, statestack, last, curcode, insertions, curtb,
                   tbindex, tb>>

Next == ExecStep \/ ExecStop \/ ConsoleLine \/ ConsoleEnd

\* The dispatcher as a function of the transcript: the tokens it yields from
\* the line at p on, b holding its local variables (lexer.py:592-636).
RECURSIVE ConsoleFrom(_, _, _)
ConsoleFrom(t, p, b) ==
    LET e == line_re(t, p)
        line == Slice(t, p, e)
        flushed == IF b.curcode # <<>> THEN FlushCode(b.curcode, b.insertions) ELSE <<>>
        c == [b EXCEPT !.curcode = <<>>,
                       !.insertions = InsertionsAfterFlush(b.curcode, @)]
    IN  IF e < 0
        THEN flushed \o (IF b.curtb # <<>> THEN FlushTraceback(b.curtb, b.tbindex)
                         ELSE <<>>)
        ELSE IF IsPromptLine(line)
        THEN ConsoleFrom(t, e,
                 [b EXCEPT !.tb = 0,
                           !.insertions = Append(@, Insertion(b.curcode, Slice(line, 0, 4))),
                           !.curcode = @ \o Slice(line, 4, Len(line))])
        ELSE IF IsBareContinuation(line) /\ b.tb = 0
        THEN ConsoleFrom(t, e,
                 [b EXCEPT !.insertions = Append(@, Insertion(b.curcode, <<".", ".", ".">>)),
                           !.curcode = @ \o Slice(line, 3, Len(line))])
        ELSE IF IsTracebackHeader(line)
        THEN flushed \o ConsoleFrom(t, e, [c EXCEPT !.tb = 1, !.curtb = line,
                                                     !.tbindex = p])
        ELSE IF Str(line, 0, Len(line)) = "KeyboardInterrupt\n"
        THEN flushed \o <<Token(p, "Name.Class", line)>> \o ConsoleFrom(t, e, c)
        ELSE IF b.tb # 0
        THEN IF ~ContinuesTraceback(line)
             THEN flushed \o FlushTraceback(b.curtb \o line, b.tbindex)
                  \o ConsoleFrom(t, e, [c EXCEPT !.tb = 0, !.curtb = <<>>])
             ELSE flushed \o ConsoleFrom(t, e, [c EXCEPT !.curtb = @ \o line])
        ELSE flushed \o <<Token(p, "Generic.Output", line)>> \o ConsoleFrom(t, e, c)

\* RenpyConsoleLexer.get_tokens_unprocessed(text), its locals as set at
\* lexer.py:586-591.
RenpyConsoleLexer_get_tokens_unprocessed(t) ==
    ConsoleFrom(t, 0, [curcode |-> <<>>, insertions |-> <<>>, curtb |-> <<>>,
                       tbindex |-> 0, tb |-> 0])

\* A call that finds the buffers of the traceback block as the call before
\* it left them.
NewCall_KeepsTraceback ==
    /\ done
    /\ mode' \in {"main", "traceback", "console", "block"}
    /\ text' \in Inputs(mode')
    /\ pos' = 0
    /\ statestack' = <<"root">>
    /\ out' = <<>>
    /\ last' = NoStep
    /\ done' = FALSE
    /\ curcode' = <<>>
    /\ insertions' = <<>>
    /\ UNCHANGED <<curtb, tbindex, tb>>

\* A further tokenization call, made when the one before it has ended, with
\* any of the lexers on any text: the executor starts at the cursor 0
\* with the stack [root], the dispatcher with its locals as set at
\* lexer.py:586-591.
NewCall ==
    /\ done
    /\ mode' \in {"main", "traceback", "console", "block"}
    /\ text' \in Inputs(mode')
    /\ pos' = 0
    /\ statestack' = <<"root">>
    /\ out' = <<>>
    /\ last' = NoStep
    /\ done' = FALSE
    /\ curcode' = <<>>
    /\ insertions' = <<>>
    /\ curtb' = <<>>
    /\ tbindex' = 0
    /\ tb' = 0

CallNext == Next \/ NewCall

\* Any number of calls, one after the other.
CallSpec == Init /\ [][CallNext]_vars

Spec == Init /\ [][Next]_vars

\* The runs checked for progress: the console transcripts are those of at
\* most MaxFairConsoleFragments pieces.
FairInit ==
    /\ Init
    /\ mode = "console" =>
          text \in Texts(ConsoleFragments, MaxFairConsoleFragments) \cup ConsoleScenarios

\* The loops are not interrupted: every enabled step is eventually taken.
FairSpec == FairInit /\ [][Next]_vars /\ WF_vars(Next)

-----------------------------------------------------------------------------
(* Properties of the tokenization engine.                                  *)

Top(stack) == stack[Len(stack)]
TokStr(tok) == Str(tok.text, 0, Len(tok.text))
Executing == mode \in {"main", "traceback"}

\* C1: in main mode the texts of the emitted tokens, concatenated in
\* emission order, reproduce the input exactly.
MainRoundTrip == (mode = "main" /\ done) => Concat(out) = text

\* C2: in console mode the texts of the emitted tokens, concatenated in
\* emission order, reproduce the transcript exactly.
ConsoleRoundTrip == (mode = "console" /\ done) => Concat(out) = text

\* C3: in each of the three modes tokenization reaches the end of its input
\* after finitely many steps; the zero-width rules never keep the executor
\* at one cursor position for ever.
Termination == <>done

\* A finished traceback run in which the zero-width File lookahead fired.
TerminatedAfterZeroWidth ==
    /\ mode = "traceback" /\ done
    /\ \E i \in 1..Len(out) : out[i].kind = "Generic.Traceback" /\ out[i].text = <<>>

\* C4: in main mode the first token has offset 0 and every token starts
\* where the token before it ends.
MainContiguous ==
    mode = "main" =>
        /\ out # <<>> => out[1].offset = 0
        /\ \A i \in 1..(Len(out) - 1) :
              out[i + 1].offset = out[i].offset + Len(out[i].text)

\* A step of the console dispatcher that flushes the code buffer.
CodeFlushed == mode = "console" /\ ~done /\ curcode # <<>> /\ (curcode' = <<>> \/ done')

\* The position in the transcript of the first line of the code buffer, at
\* a step that flushes it: the buffered lines end where the cursor is.
BufferStart ==
    pos - Len(curcode)
        - Len(Concat([i \in 1..Len(insertions) |-> insertions[i][2][1]]))

\* C5: in console mode every token emitted for a flushed code buffer has as
\* offset its absolute position in the transcript.
ConsoleCodeOffsetsAbsolute ==
    [][CodeFlushed =>
         \A i \in 1..Len(FlushCode(curcode, insertions)) :
            LET tok == out'[Len(out) + i]
            IN  /\ tok.offset >= BufferStart
                /\ Slice(text, tok.offset, tok.offset + Len(tok.text)) = tok.text]_vars

\* C6: with the main and the traceback table the state stack always has the
\* root state at its bottom and depth >= 1, and no '#pop' is ever applied to
\* a stack that holds the root state alone.
StackFloor ==
    Executing =>
        /\ Len(statestack) >= 1
        /\ statestack[1] = "root"
        /\ last.s = "#pop" => Len(last.stack) > 1

\* A '#pop' has just brought the stack back to the root state alone.
PoppedToRoot == Executing /\ last.s = "#pop" /\ statestack = <<"root">>

NoRuleMatches(table, state, t, p) ==
    \A i \in 1..Len(StateRules(table, state)) :
        Match(table, StateRules(table, state)[i].m, t, p).e < 0

\* The latest step emitted one Error token of one character at its cursor,
\* advanced the cursor by one and left the stack as it was.
RecoveredByError ==
    /\ last.toks = <<Token(last.from, "Error", <<Ch(text, last.from)>>)>>
    /\ out # <<>> /\ out[Len(out)] = last.toks[1]
    /\ pos = last.from + 1
    /\ statestack = last.stack

\* C7: whenever no rule of the current state matches at the cursor, and in
\* particular at a non-identifier character in the state 'classname', the
\* executor emits exactly one Error token of length 1 at the cursor, advances
\* by exactly 1 and leaves the state stack unchanged.
ErrorRecovery ==
    (Executing /\ last.index >= 0) =>
        /\ NoRuleMatches(mode, Top(last.stack), text, last.from) => RecoveredByError
        /\ (/\ mode = "main" /\ Top(last.stack) = "classname"
            /\ Ch(text, last.from) \notin IdStart) => RecoveredByError

\* An Error token has just been emitted in the state 'classname'.
ErrorInClassname ==
    /\ mode = "main" /\ last.index = 0 /\ Top(last.stack) = "classname"
    /\ out[Len(out)].kind = "Error"

\* C8: in each of the three modes a non-empty input yields at least one
\* token.
Resilience == (done /\ text # <<>>) => out # <<>>

KeywordKinds == {"Keyword", "Renpy.Reserved", "Renpy.Declaration", "Operator.Word"}
KeywordListWords ==
    KeywordWords \cup ReservedWords \cup DeclarationWords
        \cup {"in", "is", "and", "or", "not"}
\* The i-th token is a word-list entry emitted with a keyword kind.
IsKeywordToken(i) == out[i].kind \in KeywordKinds /\ TokStr(out[i]) \in KeywordListWords
WordCharBefore(i) == Ch(text, out[i].offset - 1) \in WordChar
WordCharAfter(i) == Ch(text, out[i].offset + Len(out[i].text)) \in WordChar

FirstMatchWins ==
    /\ (Executing /\ last.index > 0) =>
          LET rules == StateRules(mode, Top(last.stack))
              r == rules[last.index]
              m == Match(mode, r.m, text, last.from)
          IN  /\ \A j \in 1..(last.index - 1) :
                    Match(mode, rules[j].m, text, last.from).e < 0
              /\ m.e = last.to /\ pos = last.to
              /\ last.toks = RuleTokens(r.a, m, text, last.from)
              /\ statestack = NewStack(last.stack, r.s)
    /\ (/\ mode = "main" /\ last.index >= 0 /\ Top(last.stack) = "root"
        /\ Ch(text, last.from) = ".") =>
          last.toks = <<Token(last.from, "Operator", <<".">>)>>

\* The Operator rule has just taken a '.' where the float rule matches a
\* longer span.
ShorterRuleFirst ==
    /\ mode = "main" /\ last.rule = "operator"
    /\ MatchNumbers("float", text, last.from).e > last.to

\* The tokens of a stream that are not of kind Text.
RECURSIVE NonText(_)
NonText(ts) ==
    IF ts = <<>> THEN <<>>
    ELSE (IF Head(ts).kind = "Text" THEN <<>> ELSE <<Head(ts)>>) \o NonText(Tail(ts))

LabelRun == mode = "main" /\ text = LabelScenario /\ done

\* C11 as stated: a 'label start:' line followed by an indented "Hello"
\* yields, between the blank tokens, a declaration token 'label', a Name
\* token 'start', a Punctuation token ':' and one String.Double token whose
\* text is the whole literal with both quotes.
LabelScenarioOneString ==
    LabelRun =>
        NonText(out) =
            << Token(0, "Renpy.Declaration", <<"l", "a", "b", "e", "l">>),
               Token(6, "Name", <<"s", "t", "a", "r", "t">>),
               Token(11, "Punctuation", <<":">>),
               Token(17, "String.Double", <<"\"", "H", "e", "l", "l", "o", "\"">>) >>

\* C11 as amended: the literal is emitted as three consecutive String.Double
\* tokens, the opening quote, the body and the closing quote, whose texts
\* together are the whole literal.
LabelScenarioThreeStrings ==
    LabelRun =>
        out =
            << Token(0, "Renpy.Declaration", <<"l", "a", "b", "e", "l">>),
               Token(5, "Text", <<" ">>),
               Token(6, "Name", <<"s", "t", "a", "r", "t">>),
               Token(11, "Punctuation", <<":">>),
               Token(12, "Text", <<"\n">>),
               Token(13, "Text", <<" ", " ", " ", " ">>),
               Token(17, "String.Double", <<"\"">>),
               Token(18, "String.Double", <<"H", "e", "l", "l", "o">>),
               Token(23, "String.Double", <<"\"">>),
               Token(24, "Text", <<"\n">>) >>

\* The scenario has been tokenized to its end.
LabelScenarioDone == LabelRun /\ Len(out) = 10

-----------------------------------------------------------------------------
(* Properties of the console dispatcher.                                   *)

\* The kinds and texts of a token stream, the offsets left out.
KindText(ts) == [i \in 1..Len(ts) |-> [kind |-> ts[i].kind, text |-> ts[i].text]]

\* The lines of t from p on, each with its newline; a tail without a
\* newline is no line.
RECURSIVE Lines(_, _)
Lines(t, p) ==
    IF line_re(t, p) < 0 THEN <<>>
    ELSE <<Slice(t, p, line_re(t, p))>> \o Lines(t, line_re(t, p))

\* The part of a base token that lies at the buffer positions lo..hi-1.
LinePart(tok, lo, hi) ==
    LET a == IF tok.offset > lo THEN tok.offset ELSE lo
        z == Min(tok.offset + Len(tok.text), hi)
    IN  IF a < z
        THEN <<[kind |-> tok.kind,
                text |-> SubSeq(tok.text, a - tok.offset + 1, z - tok.offset)]>>
        ELSE <<>>

\* The parts of the base tokens from the j-th on that lie at lo..hi-1.
RECURSIVE Segment(_, _, _, _)
Segment(base, j, lo, hi) ==
    IF j > Len(base) THEN <<>>
    ELSE LinePart(base[j], lo, hi) \o Segment(base, j + 1, lo, hi)

\* The merged stream by position: from the n-th insertion on, each
\* insertion's tokens followed by the parts of the base tokens that lie
\* between its index and the next insertion's index.
RECURSIVE MergedFrom(_, _, _, _)
MergedFrom(ins, base, n, end) ==
    IF n > Len(ins) THEN <<>>
    ELSE KindText(ins[n][2])
         \o Segment(base, 1, ins[n][1],
                    IF n < Len(ins) THEN ins[n + 1][1] ELSE end)
         \o MergedFrom(ins, base, n + 1, end)

\* The kinds and texts expected of merging ins into the tokens of code.
ExpectedMerge(ins, code) ==
    LET base == get_tokens_unprocessed("main", code)
    IN  IF ins = <<>> THEN KindText(base)
        ELSE Segment(base, 1, 0, ins[1][1])
             \o MergedFrom(ins, base, 1, Len(code) + 1)

\* The code buffer and the insertions of a transcript of prompt lines only,
\* from its n-th line on.
RECURSIVE PromptCode(_, _)
PromptCode(lines, n) ==
    IF n > Len(lines) THEN <<>>
    ELSE Slice(lines[n], 4, Len(lines[n])) \o PromptCode(lines, n + 1)

RECURSIVE PromptInsertions(_, _, _)
PromptInsertions(lines, n, at) ==
    IF n > Len(lines) THEN <<>>
    ELSE << <<at, <<Token(0, "Generic.Prompt", Slice(lines[n], 0, 4))>>>> >>
         \o PromptInsertions(lines, n + 1, at + Len(lines[n]) - 4)

\* A finished run on a transcript made only of complete prompt lines.
PromptSession ==
    /\ mode = "console" /\ done /\ text # <<>>
    /\ text[Len(text)] = "\n"
    /\ \A n \in 1..Len(Lines(text, 0)) :
          \/ Lit(Lines(text, 0)[n], 0, ">>> ")
          \/ Lit(Lines(text, 0)[n], 0, "... ")

\* C12: for a transcript made only of lines that begin with '>>> ' or
\* '... ', the output holds one Generic.Prompt token per line, the line's
\* first four characters, each followed by the tokens of the rest of its own
\* line before the next line's prompt token, in line order.
PromptPerLine ==
    PromptSession =>
        KindText(out) =
            ExpectedMerge(PromptInsertions(Lines(text, 0), 1, 0),
                          PromptCode(Lines(text, 0), 1))

\* A finished session of three prompt lines.
ThreePromptLines == PromptSession /\ Len(Lines(text, 0)) = 3

-----------------------------------------------------------------------------
(* Properties of the traceback table.                                      *)

\* The latest step of a traceback run started at the beginning of a
\* complete line, in the given state.
TracebackStepAt(state) ==
    /\ mode = "traceback" /\ last.index >= 0
    /\ Top(last.stack) = state
    /\ LineStart(text, last.from)
    /\ line_re(text, last.from) >= 0

\* The line the latest step started at, and the end of its leading run of
\* identifier characters.
LastLine == Slice(text, last.from, line_re(text, last.from))
ClassEnd == Span(LastLine, 0, WordChar)

\* An '<ErrorClassName>: <message>' line and a bare '<ErrorClassName>' line.
IsErrorMessageLine(l) ==
    /\ Ch(l, 0) \in IdStart
    /\ Lit(l, Span(l, 0, WordChar), ": ")
    /\ Len(l) > Span(l, 0, WordChar) + 3
IsBareErrorLine(l) == Ch(l, 0) \in IdStart /\ Span(l, 0, WordChar) + 1 = Len(l)

\* C13: at 'root' a line that starts with 'Traceback' is emitted as one
\* Generic.Traceback token and pushes 'intb'; in 'intb' a File line with a
\* name is emitted as its seven sub-tokens; an error line, with a message or
\* bare, is emitted as its error-class and message tokens and pops to
\* [root]; a plain line met at 'root' is emitted as one Other token.
TracebackProtocol ==
    /\ (TracebackStepAt("root") /\ Lit(LastLine, 0, "Traceback")) =>
          /\ last.toks = <<Token(last.from, "Generic.Traceback", LastLine)>>
          /\ statestack = <<"root", "intb">>
    /\ (/\ TracebackStepAt("intb") /\ FileLine(LastLine, 0) # <<>>
        /\ Lit(LastLine, FileLine(LastLine, 0)[4][2], ", in ")
        /\ Len(LastLine) > FileLine(LastLine, 0)[4][2] + 6) =>
          /\ KindText(last.toks)[2].kind = "Name.Builtin"
          /\ [i \in 1..Len(last.toks) |-> last.toks[i].kind] =
                <<"Text", "Name.Builtin", "Text", "Number", "Text", "Name", "Text">>
          /\ Concat(last.toks) = LastLine
          /\ statestack = last.stack
    /\ (TracebackStepAt("intb") /\ IsErrorMessageLine(LastLine)) =>
          /\ KindText(last.toks) =
                << [kind |-> "Generic.Error", text |-> Slice(LastLine, 0, ClassEnd)],
                   [kind |-> "Text", text |-> <<":", " ">>],
                   [kind |-> "Name",
                    text |-> Slice(LastLine, ClassEnd + 2, Len(LastLine) - 1)],
                   [kind |-> "Text", text |-> <<"\n">>] >>
          /\ statestack = <<"root">>
    /\ (TracebackStepAt("intb") /\ IsBareErrorLine(LastLine)) =>
          /\ KindText(last.toks) =
                << [kind |-> "Generic.Error", text |-> Slice(LastLine, 0, ClassEnd)],
                   [kind |-> "Text", text |-> <<"\n">>] >>
          /\ statestack = <<"root">>
    /\ (/\ TracebackStepAt("root") /\ ~Lit(LastLine, 0, "Traceback")
        /\ ~Lit(LastLine, 0, "^C") /\ FileLine(LastLine, 0) = <<>>) =>
          /\ last.toks = <<Token(last.from, "Other", LastLine)>>
          /\ statestack = <<"root">>

-----------------------------------------------------------------------------
(* Properties of the console dispatcher's traceback and output branches.   *)

\* The dispatcher is about to read a line; the line it reads.
ReadsLine == mode = "console" /\ ~done /\ line_re(text, pos) >= 0
CurLine == Slice(text, pos, line_re(text, pos))

\* A non-prompt line is read while a traceback block is open.
ReadsInTraceback == ReadsLine /\ tb # 0 /\ ~IsPromptLine(CurLine)

\* C14: while a traceback block is open the block is the slice of the
\* transcript from its header line to the cursor; every non-prompt line,
\* whatever its content, is appended to it; the first such line that
\* neither starts with whitespace nor is an ellipsis closes it, and the
\* tokens emitted are those of the traceback lexer on the slice from the
\* header through that line, shifted by the header's offset.
TracebackCapture ==
    [][ReadsInTraceback =>
          /\ curtb = Slice(text, tbindex, pos)
          /\ IF ContinuesTraceback(CurLine)
             THEN /\ curtb' = curtb \o CurLine
                  /\ tb' # 0
                  /\ out' = out
             ELSE /\ out' = out \o Shift(get_tokens_unprocessed("traceback",
                                            Slice(text, tbindex, line_re(text, pos))),
                                         tbindex)
                  /\ curtb' = <<>>]_vars

\* A line made of three dots followed by whitespace only.
EllipsisOnly(l) == Lit(l, 0, "...") /\ \A i \in 3..(Len(l) - 1) : Ch(l, i) \in Space

\* A line that is neither a prompt line, nor a bare continuation marker, nor
\* a traceback header, nor the KeyboardInterrupt line.
PlainLine(l) ==
    /\ ~IsPromptLine(l)
    /\ ~EllipsisOnly(l)
    /\ ~IsTracebackHeader(l)
    /\ Str(l, 0, Len(l)) # "KeyboardInterrupt\n"

\* C15: a plain line read while no traceback block is open is emitted as
\* exactly one Generic.Output token that holds the whole line, newline
\* included, at the line's position in the transcript; the only other
\* tokens emitted at that step are those of the flushed code buffer.
OutputLine ==
    [][(ReadsLine /\ tb = 0 /\ PlainLine(CurLine)) =>
          /\ Len(out') > Len(out)
          /\ SubSeq(out', 1, Len(out)) = out
          /\ out'[Len(out')] =
                [offset |-> pos, kind |-> "Generic.Output", text |-> CurLine]
          /\ \A i \in (Len(out) + 1)..(Len(out') - 1) : out'[i].kind # "Generic.Output"
          /\ curcode = <<>> => Len(out') = Len(out) + 1]_vars

\* An output line that begins with three dots has been emitted after a
\* flushed prompt line.
OutputAfterCode ==
    /\ mode = "console" /\ Len(out) > 1
    /\ out[1].kind = "Generic.Prompt"
    /\ out[Len(out)].kind = "Generic.Output"
    /\ Lit(out[Len(out)].text, 0, "...")
    /\ out[Len(out)].offset = pos - Len(out[Len(out)].text)

\* The tokens of the pending code buffer and of the pending traceback block.
PendingCode == IF curcode # <<>> THEN FlushCode(curcode, insertions) ELSE <<>>
PendingTraceback == IF curtb # <<>> THEN FlushTraceback(curtb, tbindex) ELSE <<>>

\* C16: after the last line the pending code buffer is tokenized and merged
\* with its insertions, then the pending traceback block is lexed, the code
\* first; and every line accumulated into either buffer is emitted in the
\* end: until then a buffer only grows, or it is emptied by a step that
\* emits its tokens.
EndFlush ==
    [][(mode = "console" /\ ~done) =>
          /\ done' => out' = out \o PendingCode \o PendingTraceback
          /\ (~done' /\ curcode # <<>>) =>
                \/ curcode' = curcode \o Slice(CurLine, Len(CurLine) - (Len(curcode') - Len(curcode)), Len(CurLine))
                \/ /\ curcode' = <<>>
                   /\ SubSeq(out', 1, Len(out) + Len(PendingCode)) = out \o PendingCode
          /\ (~done' /\ curtb # <<>>) =>
                \/ curtb' = curtb
                \/ curtb' = curtb \o CurLine
                \/ /\ curtb' = <<>>
                   /\ out' = out \o PendingCode \o FlushTraceback(curtb \o CurLine, tbindex)]_vars

\* A line that neither starts with a prompt nor is a bare continuation
\* marker.
NonPromptLine(l) == ~Lit(l, 0, ">>> ") /\ ~Lit(l, 0, "... ") /\ ~EllipsisOnly(l)

\* C17: when a non-prompt line is read while the code buffer is non-empty,
\* the tokens of the buffered code merged with its insertions are emitted
\* first and at most one token of the line follows them, and afterwards the
\* buffer and the insertion list are empty; when the buffer is empty no
\* code token is emitted and the insertion list is left alone.
FlushOnNonPrompt ==
    [][(ReadsLine /\ NonPromptLine(CurLine)) =>
          IF curcode # <<>>
          THEN /\ Len(out') >= Len(out) + Len(PendingCode)
               /\ SubSeq(out', 1, Len(out) + Len(PendingCode)) = out \o PendingCode
               /\ \A i \in (Len(out) + Len(PendingCode) + 1)..Len(out') :
                     /\ i = Len(out')
                     /\ out'[i].offset = pos /\ out'[i].text = CurLine
               /\ curcode' = <<>>
               /\ insertions' = <<>>
          ELSE /\ \/ out' = out
                  \/ \E k \in {"Generic.Output", "Name.Class"} :
                        out' = Append(out, [offset |-> pos, kind |-> k, text |-> CurLine])
                  \/ out' = out \o FlushTraceback(curtb \o CurLine, tbindex)
               /\ curcode' = <<>>
               /\ insertions' = insertions]_vars

\* A KeyboardInterrupt line has flushed a non-empty code buffer.
InterruptAfterCode ==
    /\ mode = "console" /\ ~done /\ Len(out) > 2
    /\ out[1].kind = "Generic.Prompt"
    /\ out[Len(out)].kind = "Name.Class"
    /\ out[Len(out)].offset + Len(out[Len(out)].text) = pos
    /\ curcode = <<>> /\ insertions = <<>>

\* C18: a line that is exactly 'KeyboardInterrupt' and a newline, read while
\* no traceback block is open, is emitted as a single Name.Class token that
\* holds the whole line at the line's position, after the tokens of the
\* flushed code buffer if there is one, and it opens no traceback block.
KeyboardInterruptLine ==
    [][(ReadsLine /\ tb = 0 /\ Str(CurLine, 0, Len(CurLine)) = "KeyboardInterrupt\n") =>
          /\ Len(out') > Len(out)
          /\ SubSeq(out', 1, Len(out)) = out
          /\ out'[Len(out')] = [offset |-> pos, kind |-> "Name.Class", text |-> CurLine]
          /\ curcode = <<>> => Len(out') = Len(out) + 1
          /\ tb' = 0
          /\ curtb' = curtb
          /\ tbindex' = tbindex]_vars

\* A KeyboardInterrupt line has been emitted right after an output line,
\* with no traceback block opened.
InterruptAfterOutput ==
    /\ mode = "console" /\ Len(out) >= 2
    /\ out[Len(out) - 1].kind = "Generic.Output"
    /\ out[Len(out)].kind = "Name.Class"
    /\ Str(out[Len(out)].text, 0, Len(out[Len(out)].text)) = "KeyboardInterrupt\n"
    /\ out[Len(out)].offset = pos - 18
    /\ tb = 0 /\ curtb = <<>>

-----------------------------------------------------------------------------
(* Properties of the merge of a flushed code buffer.                       *)

\* The tokens emitted for the code buffer by the step that flushes it: the
\* new tokens but those of the line that caused the flush, or of the pending
\* traceback block at the end of the transcript.
FlushedTokens ==
    SubSeq(out', Len(out) + 1,
           Len(out') - (IF done' THEN Len(PendingTraceback)
                        ELSE IF IsTracebackHeader(CurLine) THEN 0 ELSE 1))

IsPromptToken(tok) == tok.kind = "Generic.Prompt"
IsBaseToken(tok) == tok.kind # "Generic.Prompt"

\* The place in ts of its k-th prompt token.
PromptPlace(ts, k) ==
    CHOOSE i \in 1..Len(ts) :
        /\ IsPromptToken(ts[i])
        /\ Cardinality({h \in 1..i : IsPromptToken(ts[h])}) = k

-----------------------------------------------------------------------------
(* Properties of the recorded insertions.                                  *)

\* C21: within one code buffer the recorded insertion offsets increase
\* strictly and the first is 0; each offset recorded is the length of the
\* buffer at the time of recording.
InsertionOffsets ==
    [][mode = "console" =>
          /\ insertions # <<>> => insertions[1][1] = 0
          /\ \A k \in 1..(Len(insertions) - 1) : insertions[k][1] < insertions[k + 1][1]
          /\ Len(insertions') = Len(insertions) + 1 =>
                /\ SubSeq(insertions', 1, Len(insertions)) = insertions
                /\ insertions'[Len(insertions')][1] = Len(curcode)
                /\ insertions # <<>> =>
                      insertions'[Len(insertions')][1] > insertions[Len(insertions)][1]
                /\ insertions = <<>> => insertions'[1][1] = 0]_vars

\* Three insertions are recorded for one buffer, the last at its third line.
ThreeInsertions ==
    /\ mode = "console" /\ Len(insertions) = 3
    /\ 0 < insertions[2][1] /\ insertions[2][1] < insertions[3][1]
    /\ insertions[3][1] < Len(curcode)

\* C22: a line that is exactly 'KeyboardInterrupt', read while a traceback
\* block is open, is appended to the block like any other traceback line
\* and closes it: the tokens emitted are those of the traceback lexer on the
\* block with the line at its end, and no Name.Class token is emitted for
\* the line.
InterruptInsideTraceback ==
    [][(ReadsLine /\ tb # 0 /\ Str(CurLine, 0, Len(CurLine)) = "KeyboardInterrupt\n") =>
          /\ out' = out \o FlushTraceback(curtb \o CurLine, tbindex)
          /\ curtb' = <<>>
          /\ tb' = 0]_vars

-----------------------------------------------------------------------------
(* Properties of the rule tables' transitions and actions.                 *)

DefaultRules == {"funcname_default", "import_default", "fromimport_default"}

\* C23: when a default('#pop') rule of 'funcname', 'import' or 'fromimport'
\* fires, no token is emitted, the cursor stays where it is and exactly one
\* state is popped; no earlier rule of the state matches at the cursor.
DefaultIsPureTransition ==
    (Executing /\ last.rule \in DefaultRules) =>
        /\ Top(last.stack) \in {"funcname", "import", "fromimport"}
        /\ last.toks = <<>>
        /\ last.to = last.from /\ pos = last.from
        /\ Len(statestack) = Len(last.stack) - 1
        /\ statestack = SubSeq(last.stack, 1, Len(last.stack) - 1)
        /\ \A j \in 1..(last.index - 1) :
              Match(mode, StateRules(mode, Top(last.stack))[j].m, text, last.from).e < 0

\* The default rule of 'import' has fired in front of a character that no
\* other rule of the state matches.
ImportLeftByDefault ==
    /\ mode = "main" /\ last.rule = "import_default"
    /\ last.stack = <<"root", "import">>
    /\ statestack = <<"root">>
    /\ pos < Len(text)

StringStates == {"dqs", "sqs", "tdqs", "tsqs"}

\* C24: a non-raw opening quote fires on the stack [root] and leaves
\* [root, combined(stringescape, X)]; in the combined state the rule of
\* 'stringescape' is tried first and the rules of X after it in their
\* order; the closing quote of X pops the combined state as one unit and
\* leaves exactly [root].
CombinedStringState ==
    (mode = "main" /\ last.index > 0) =>
        \A X \in StringStates :
            /\ last.rule = "open_" \o X =>
                  /\ last.stack = <<"root">>
                  /\ statestack = <<"root", Combined("stringescape", X)>>
            /\ Top(last.stack) = Combined("stringescape", X) =>
                  /\ last.stack = <<"root", Combined("stringescape", X)>>
                  /\ \/ last.index = 1 /\ last.rule = "stringescape"
                     \/ /\ last.index > 1
                        /\ last.rule = RenpyLexer_tokens(X)[last.index - 1].m
                        /\ Match("main", "stringescape", text, last.from).e < 0
                  /\ last.rule = X \o "_close" => statestack = <<"root">>
                  /\ last.rule # X \o "_close" => statestack = last.stack

\* The escape backslash-n was emitted by the rule of 'stringescape' inside a
\* double-quoted string that has since been closed.
EscapeInsideClosedString ==
    /\ mode = "main" /\ done /\ text = EscapedString
    /\ last.rule = "dqs_close"
    /\ statestack = <<"root">>
    /\ Len(out) = 3
    /\ out[2] = [offset |-> 1, kind |-> "String.Escape", text |-> <<"\\", "n">>]

\* C25: every token emitted in main mode has a non-empty text; a rule with
\* several capture groups emits no token for a group that matched the empty
\* string: a quote opened without a prefix gives the quote's token alone.
NoEmptyToken ==
    mode = "main" =>
        /\ \A i \in 1..Len(out) : out[i].text # <<>>
        /\ \A X \in StringStates :
              (last.rule = "open_" \o X /\ Ch(text, last.from) \in {"\"", "'"}) =>
                  /\ Len(last.toks) = 1
                  /\ last.toks[1].offset = last.from
                  /\ last.toks[1].text = Slice(text, last.from, last.to)
                  /\ last.toks[1].kind \in {"String.Double", "String.Single"}

\* A single quote opened without a prefix has given one token.
QuoteWithoutPrefix ==
    /\ mode = "main" /\ last.rule = "open_sqs"
    /\ last.to = last.from + 1
    /\ Len(out) = 1 /\ Len(out[1].text) = 1

\* C26: in 'intb' a line of four spaces, a code snippet and a newline is
\* emitted as a Text token for the indent, then the tokens the main lexer
\* gives for the snippet alone from its root state, each offset increased
\* by the snippet's position in the traceback text, then a Text token for
\* the newline.
SnippetRecursion ==
    (TracebackStepAt("intb") /\ Lit(LastLine, 0, "    ") /\ Len(LastLine) > 5) =>
        /\ last.rule = "intb_snippet"
        /\ last.to = last.from + Len(LastLine)
        /\ last.toks =
              <<[offset |-> last.from, kind |-> "Text", text |-> <<" ", " ", " ", " ">>]>>
              \o Shift(get_tokens_unprocessed("main",
                                              SubSeq(LastLine, 5, Len(LastLine) - 1)),
                       last.from + 4)
              \o <<[offset |-> last.to - 1, kind |-> "Text", text |-> <<"\n">>]>>
        /\ statestack = last.stack

\* The snippet with a string in it has been tokenized: its seven tokens lie
\* between the indent and the newline.
SnippetTokenized ==
    /\ mode = "traceback" /\ text = SnippetReport
    /\ last.rule = "intb_snippet"
    /\ Len(last.toks) = 9
    /\ last.toks[2] = [offset |-> last.from + 4, kind |-> "Name", text |-> <<"x">>]
    /\ last.toks[6].kind = "String.Double"
    /\ last.toks[8].kind = "String.Double"

-----------------------------------------------------------------------------
(* Properties of successive calls.                                         *)

\* The token stream of one call as a function of the lexer and the text.
Stream(m, t) ==
    IF m = "console" THEN RenpyConsoleLexer_get_tokens_unprocessed(t)
    ELSE get_tokens_unprocessed(m, t)

\* C27: a call made after any other call starts from a fresh state (stack
\* [root], cursor 0, no output, empty code buffer, insertion list and
\* traceback buffer, traceback flag off), and the stream a call ends with
\* depends on its lexer and its text alone, whatever was tokenized before.
CallIndependence ==
    [][/\ (done /\ ~done') =>
             /\ pos' = 0 /\ statestack' = <<"root">> /\ out' = <<>>
             /\ curcode' = <<>> /\ insertions' = <<>> /\ curtb' = <<>> /\ tb' = 0
       /\ (~done /\ done') => out' = Stream(mode, text)]_vars

\* A console call has ended with a traceback block that was still pending
\* when the end flush emitted it; the buffer keeps the block.
EndedWithPendingTraceback ==
    /\ mode = "console" /\ done
    /\ curtb # <<>> /\ tb # 0
    /\ out # <<>>

\* The latest step fired a rule whose action is bygroups.
FiredByGroups ==
    /\ Executing /\ last.index > 0
    /\ StateRules(mode, Top(last.stack))[last.index].a.type = "bygroups"

\* C28: for every bygroups rule of the main and the traceback table the
\* tokens emitted for one match lie one after the other from the start of
\* the match and their texts, concatenated, are exactly the consumed text.
GroupsCoverMatch ==
    FiredByGroups =>
        /\ Concat(last.toks) = Slice(text, last.from, last.to)
        /\ \A i \in 1..Len(last.toks) :
              last.toks[i].offset =
                  last.from + Len(Concat(SubSeq(last.toks, 1, i - 1)))

-----------------------------------------------------------------------------
(* Properties of a traceback block interrupted by a prompt line.           *)

\* A traceback block that a prompt line has left pending.
PendingBlock == mode = "console" /\ ~done /\ tb = 0 /\ curtb # <<>>

\* C29: a line that begins with '>>> ' or '... ', read while a traceback
\* block is open, clears the flag and leaves the block as it is, emitting
\* nothing; from then on the block is kept unchanged while only code tokens
\* and the tokens of other lines are emitted, until either a line that
\* passes the header test replaces it, or the end of the transcript emits
\* its tokens after every other token.
InterruptedTraceback ==
    [][/\ (ReadsLine /\ tb # 0 /\ (Lit(CurLine, 0, ">>> ") \/ Lit(CurLine, 0, "... "))) =>
             /\ tb' = 0
             /\ curtb # <<>> /\ curtb' = curtb /\ tbindex' = tbindex
             /\ out' = out
       /\ PendingBlock =>
             \/ /\ ~done' /\ curtb' = curtb /\ tbindex' = tbindex /\ tb' = 0
                /\ \/ out' = out
                   \/ out' = out \o PendingCode
                   \/ \E k \in {"Generic.Output", "Name.Class"} :
                         out' = out \o PendingCode
                                    \o <<[offset |-> pos, kind |-> k, text |-> CurLine]>>
             \/ /\ ~done' /\ IsTracebackHeader(CurLine)
                /\ curtb' = CurLine /\ tbindex' = pos /\ tb' = 1
                /\ out' = out \o PendingCode
             \/ /\ done'
                /\ out' = out \o PendingCode \o FlushTraceback(curtb, tbindex)]_vars

\* The transcript has ended: the header that a prompt line interrupted was
\* emitted last, after the tokens of the prompt line.
InterruptedBlockEmittedLast ==
    /\ mode = "console" /\ done /\ tb = 0 /\ curtb # <<>>
    /\ Len(out) >= 2
    /\ out[1].kind = "Generic.Prompt"
    /\ out[Len(out)].kind = "Generic.Traceback"
    /\ out[Len(out)].offset = tbindex
    /\ tbindex + Len(curtb) < pos

-----------------------------------------------------------------------------
(* Properties of the dispatcher's division into lines.                     *)

\* The number of characters of t up to and including its last newline.
LastNewline(t) ==
    IF \E i \in 1..Len(t) : t[i] = "\n"
    THEN CHOOSE i \in 1..Len(t) : t[i] = "\n" /\ \A j \in (i + 1)..Len(t) : t[j] # "\n"
    ELSE 0

\* C30: in console mode the text after the last newline of the transcript,
\* the whole transcript when it has no newline, is never examined: the
\* cursor never passes the last newline, the code and traceback buffers
\* hold no more than the lines read, and the output is that of the
\* transcript cut after its last newline.
OnlyTerminatedLines ==
    mode = "console" =>
        /\ pos <= LastNewline(text)
        /\ Len(curcode) + Len(curtb) <= pos
        /\ done =>
              /\ pos = LastNewline(text)
              /\ out = RenpyConsoleLexer_get_tokens_unprocessed(
                           SubSeq(text, 1, LastNewline(text)))
              /\ \A i \in 1..Len(out) :
                    out[i].offset + Len(out[i].text) <= LastNewline(text)

\* A transcript of an output line and an unterminated tail has been
\* processed to its end.
TailLeftUnread ==
    /\ mode = "console" /\ done
    /\ 0 < pos /\ pos < Len(text)
    /\ text[Len(text)] # "\n"
    /\ Len(out) = 1 /\ out[1].kind = "Generic.Output"

-----------------------------------------------------------------------------
(* Properties of the code buffer and its insertion list.                   *)

\* C31: in console mode, after every processed line the insertion list is
\* empty exactly when the code buffer is empty; the insertions stand, in
\* increasing order, at the starts of the lines of the buffer they were
\* recorded for, one for each of its lines, so that none outlives a flush.
BufferAndInsertions ==
    mode = "console" =>
        /\ (insertions = <<>>) <=> (curcode = <<>>)
        /\ Len(insertions) = Cardinality({i \in 1..Len(curcode) : curcode[i] = "\n"})
        /\ \A k \in 1..Len(insertions) :
              /\ insertions[k][1] < Len(curcode)
              /\ insertions[k][1] = 0 \/ curcode[insertions[k][1]] = "\n"
              /\ k > 1 => insertions[k - 1][1] < insertions[k][1]

\* A code buffer has been flushed and a new one begun by a prompt line.
BufferRestarted ==
    /\ mode = "console"
    /\ \E i \in 1..Len(out) : out[i].kind = "Generic.Prompt"
    /\ Len(insertions) = 1
    /\ insertions[1][1] = 0
    /\ curcode # <<>>

-----------------------------------------------------------------------------
(* Properties of the state stack.                                          *)

\* C32: with the main and the traceback rule tables the state stack holds
\* one or two states, 'root' at the bottom, and every step whose rule names
\* a state to push was taken in 'root' alone.
BoundedStackDepth ==
    Executing =>
        /\ Len(statestack) \in {1, 2}
        /\ statestack[1] = "root"
        /\ (last.index > 0 /\ last.s \notin {"", "#pop"}) => last.stack = <<"root">>

\* A root rule of the main table has just pushed a state.
PushedFromRoot ==
    /\ mode = "main"
    /\ last.index > 0
    /\ last.s \notin {"", "#pop"}
    /\ statestack = <<"root", last.s>>

-----------------------------------------------------------------------------
(* Properties of the executor's progress.                                  *)

\* C33: in the main and traceback modes a step that leaves the cursor where
\* it is was made by a default('#pop') rule or by the File lookahead of the
\* traceback root, and the step that follows it, if the input has not
\* ended, moves the cursor forward.
ZeroWidthThenProgress ==
    [][Executing =>
          /\ (last'.index >= 0 /\ last'.to = last'.from) =>
                 last'.rule \in DefaultRules \cup {"tb_file_ahead"}
          /\ (last.index >= 0 /\ last.to = last.from /\ ~done') => pos' > pos]_vars

\* The latest step left the cursor unchanged before the end of the input.
ZeroWidthStepTaken ==
    /\ Executing
    /\ last.index > 0
    /\ last.to = last.from
    /\ pos < Len(text)

-----------------------------------------------------------------------------
(* Properties of rules that are never chosen.                              *)

\* C34: in main mode no Renpy.Label.Reserved token is emitted and the
\* 'special_labels' rule never fires: at every cursor position of 'root'
\* where its pattern matches, the step is taken by the declaration list of
\* 'keywords', which consumes the five characters of 'label'.
SpecialLabelsShadowed ==
    mode = "main" =>
        /\ \A i \in 1..Len(out) : out[i].kind # "Renpy.Label.Reserved"
        /\ last.rule # "special_label"
        /\ (/\ last.index >= 0
            /\ last.stack = <<"root">>
            /\ MatchSpecialLabels(text, last.from).e >= 0) =>
               /\ last.rule = "declaration"
               /\ last.to = last.from + 5

\* The step at the start of 'label start:' has been taken.
LabelStartStepped ==
    /\ mode = "main"
    /\ text = LabelScenario
    /\ last.index > 0
    /\ last.from = 0
    /\ MatchSpecialLabels(text, 0).e = 11

-----------------------------------------------------------------------------
(* Properties of the block table.                                          *)

\* C35: in block mode a step taken at a letter or an underscore is made by
\* the first rule and emits the whole identifier as one Name token; the
\* block-start word list never fires, no word of the block-start or
\* block-end list is the text of a Block token, every Block.Start token
\* begins with '#', and every Block.End token begins with '#' or is a pair
\* of newlines.
BlockWordsShadowed ==
    mode = "block" =>
        /\ (last.index >= 0 /\ Ch(text, last.from) \in IdStart) =>
               /\ last.rule = "block_name"
               /\ last.to = Span(text, last.from, WordChar)
               /\ last.toks = <<Token(last.from, "Name", Slice(text, last.from, last.to))>>
        /\ last.rule # "block_start"
        /\ \A i \in 1..Len(out) :
              /\ out[i].kind = "Block.Start" => out[i].text[1] = "#"
              /\ out[i].kind = "Block.End" =>
                     out[i].text[1] = "#" \/ TokStr(out[i]) = "\n\n"
              /\ TokStr(out[i]) \in BlockStartWords \cup (BlockEndWords \ {"\n\n"})
                     => out[i].kind \notin {"Block.Start", "Block.End"} \/ out[i].text[1] = "#"

\* A word of the block-start list has been emitted as a Name token after a
\* pair of newlines emitted as Block.End.
BlockWordAsName ==
    /\ mode = "block"
    /\ Len(out) = 2
    /\ out[1].kind = "Block.End"
    /\ TokStr(out[2]) \in BlockStartWords
    /\ out[2].kind = "Name"

\* The states the main rule table enters from 'root'.
MainStates ==
    {"root", "funcname", "classname", "import", "fromimport", "dqs", "sqs", "tdqs", "tsqs",
     Combined("stringescape", "dqs"), Combined("stringescape", "sqs"),
     Combined("stringescape", "tdqs"), Combined("stringescape", "tsqs")}

\* C36: in main mode the state 'properties' is never on the stack, its rule
\* never fires and no Renpy.Properties token is emitted, also where the
\* pattern of the rule matches at the cursor.
PropertiesUnreachable ==
    mode = "main" =>
        /\ \A i \in 1..Len(statestack) : statestack[i] \in MainStates
        /\ last.rule # "property"
        /\ \A i \in 1..Len(out) : out[i].kind # "Renpy.Properties"

\* A step has been taken at a cursor where the pattern of 'properties'
\* matches: eight blanks and the word 'xpos'.
PropertyLineStepped ==
    /\ mode = "main"
    /\ text = PropertyLine
    /\ last.index > 0
    /\ last.from = 0
    /\ MatchProperties(text, 0).e = 12

====
